---- MODULE Spec2Model ----
(***************************************************************************)
(* Algora: product collection -> market data -> scoring -> selection ->    *)
(* publishing.  The module models                                          *)
(*   - the Wildberries market-data client (src/src/collect/wb_analytics.py)*)
(*     with its term cache, its process-wide request marker and its        *)
(*     429-retry loop, over a discrete monotonic clock;                    *)
(*   - the pipeline run (src/scripts/run_pipeline.py) with the publish     *)
(*     ledger of src/src/db.py;                                            *)
(*   - the collectors (src/src/collect) and the fallback chain by which    *)
(*     the scripts call them;                                              *)
(*   - the scoring functions (src/src/analyze/scoring.py) and the          *)
(*     reference price the scripts pass to them.                           *)
(* Strings are sequences of one-character strings; prices of the search    *)
(* API are integers in kopecks (salePriceU), so that x / 100 rounded to    *)
(* two decimals is an integer number of kopecks.                           *)
(***************************************************************************)
EXTENDS Integers, Sequences, FiniteSets, TLC

(***************************************************************************)
(* Bounds of the model                                                     *)
(***************************************************************************)
\* monotonic clock values explored (seconds)
MaxTime == 74
\* get_wb_market_data calls per behaviour
MaxCalls == 2
\* pipeline runs per behaviour
MaxRuns == 2
\* calendar days explored
MaxDay == 15

(***************************************************************************)
(* Program constants                                                       *)
(***************************************************************************)
MAX_RETRIES == 3
BASE_DELAY == 8
MIN_REQUEST_GAP == 10
PRICE_SAMPLE == 50
RECENT_DAYS == 14
COMPACT_INSIGHT == 120
CNY_TO_RUB_FALLBACK == 1250
CACHE_HOURS == 24
CHANNEL_LINK_EVERY_N_RESPONSES == 5
DEFAULT_MAX_PER_DAY == 3
RECENT_LIMIT == 8

(***************************************************************************)
(* Generic helpers                                                         *)
(***************************************************************************)
Max2(a, b) == IF a >= b THEN a ELSE b

Min2(a, b) == IF a <= b THEN a ELSE b

Last(s) == s[Len(s)]

RECURSIVE Pow2(_)
Pow2(n) == IF n = 0 THEN 1 ELSE 2 * Pow2(n - 1)

RECURSIVE SumSeq(_)
SumSeq(s) == IF s = <<>> THEN 0 ELSE Head(s) + SumSeq(Tail(s))

RECURSIVE MinSeq(_)
MinSeq(s) == IF Len(s) = 1 THEN s[1] ELSE Min2(Head(s), MinSeq(Tail(s)))

RECURSIVE MaxSeq(_)
MaxSeq(s) == IF Len(s) = 1 THEN s[1] ELSE Max2(Head(s), MaxSeq(Tail(s)))

\* round(n / d) to the nearest integer, ties to even (Python round)
RoundDiv(n, d) ==
    LET q == n \div d
        r == n % d
    IN  IF 2 * r < d THEN q
        ELSE IF 2 * r > d THEN q + 1
        ELSE IF q % 2 = 0 THEN q ELSE q + 1

(***************************************************************************)
(* Strings: str.strip(), str.split(), " ".join()                           *)
(***************************************************************************)
RECURSIVE LStrip(_)
LStrip(s) == IF s # <<>> /\ Head(s) = " " THEN LStrip(Tail(s)) ELSE s

RECURSIVE RStrip(_)
RStrip(s) ==
    IF s # <<>> /\ Last(s) = " " THEN RStrip(SubSeq(s, 1, Len(s) - 1)) ELSE s

Strip(s) == RStrip(LStrip(s))

\* words of s: maximal runs of non-space characters
RECURSIVE SplitWords(_, _, _)
SplitWords(s, cur, acc) ==
    IF s = <<>>
    THEN IF cur = <<>> THEN acc ELSE Append(acc, cur)
    ELSE IF Head(s) = " "
         THEN SplitWords(Tail(s), <<>>, IF cur = <<>> THEN acc ELSE Append(acc, cur))
         ELSE SplitWords(Tail(s), Append(cur, Head(s)), acc)

Split(s) == SplitWords(s, <<>>, <<>>)

RECURSIVE Join(_)
Join(words) ==
    IF words = <<>> THEN <<>>
    ELSE IF Len(words) = 1 THEN words[1]
    ELSE words[1] \o <<" ">> \o Join(Tail(words))

\* search_term = keyword.strip() if keyword else " ".join(query.split()[:2])
SearchTerm(query, keyword) ==
    IF keyword # <<>>
    THEN Strip(keyword)
    ELSE LET w == Split(query) IN Join(SubSeq(w, 1, Min2(2, Len(w))))

(***************************************************************************)
(* Inputs of the market-data client                                        *)
(***************************************************************************)
Queries == { <<>>, <<"a", " ", "b", " ", "a">> }

Keywords == { <<>>, <<" ">>, <<" ", "b">> }

\* (query, keyword) arguments of the calls: no keyword at all, a keyword of
\* blanks only, and a keyword that overrides the query
Pairs ==
    { <<q, <<>>>> : q \in Queries }
      \cup { <<q, k>> : q \in Queries \ {<<>>}, k \in Keywords \ {<<>>} }

\* one listing of data.products: the salePriceU field is missing, null or a
\* number of kopecks; id is the product id (0: missing)
Listing(has, val, id) == [has |-> has, salePriceU |-> val, id |-> id]

ProductLists ==
    { <<>>,
      << Listing("num", 10000, 15000000), Listing("num", 25050, 7) >>,
      << Listing("missing", 0, 7), Listing("num", 0, 8) >>,
      << Listing("num", 30000, 0), Listing("missing", 0, 7), Listing("num", 20000, 9) >>,
      << Listing("num", 10000, 7), Listing("null", 0, 8) >> }

\* body of a 2xx answer: what resp.json() yields
BodyShapes ==
    { "not_json", "array", "no_data", "data_null", "products_null", "products" }

Bodies ==
    [shape : BodyShapes \ {"products"}, products : {<<>>}]
      \cup [shape : {"products"}, products : ProductLists]

\* what `await client.get` produces: an exception of the transport, or a
\* response with a status code
Responses ==
    [kind : {"timeout", "network"}, status : {0}, body : {[shape |-> "not_json", products |-> <<>>]}]
      \cup [kind : {"response"}, status : {429, 404, 500},
            body : {[shape |-> "not_json", products |-> <<>>]}]
      \cup [kind : {"response"}, status : {200}, body : Bodies]

(***************************************************************************)
(* Snapshots                                                               *)
(***************************************************************************)
NoUrl == <<>>

EMPTY ==
    [avg_price |-> 0, competitors |-> 0, min_price |-> 0, max_price |-> 0,
     image_url |-> NoUrl, product_url |-> NoUrl]

\* basket of the CDN for a volume number
Basket(vol) ==
    IF vol <= 143 THEN 1
    ELSE IF vol <= 287 THEN 2
    ELSE IF vol <= 431 THEN 3
    ELSE IF vol <= 719 THEN 4
    ELSE IF vol <= 1007 THEN 5
    ELSE IF vol <= 1061 THEN 6
    ELSE IF vol <= 1115 THEN 7
    ELSE IF vol <= 1169 THEN 8
    ELSE IF vol <= 1313 THEN 9
    ELSE IF vol <= 1601 THEN 10
    ELSE IF vol <= 1655 THEN 11
    ELSE IF vol <= 1919 THEN 12
    ELSE IF vol <= 2045 THEN 13
    ELSE IF vol <= 2189 THEN 14
    ELSE IF vol <= 2405 THEN 15
    ELSE IF vol <= 2621 THEN 16
    ELSE IF vol <= 2837 THEN 17
    ELSE 18

\* the URL as the tuple of the values formatted into it
WbImageUrl(product_id) ==
    LET vol == product_id \div 100000
        part == product_id \div 1000
    IN  <<"basket", Basket(vol), vol, part, product_id>>

ProductUrl(top_id) == <<"catalog", top_id>>

(***************************************************************************)
(* Parsing of a 2xx answer (wb_analytics.py, after the try block).  The     *)
(* code after `except` is not guarded: an AttributeError or a TypeError     *)
(* raised there leaves get_wb_market_data.                                  *)
(***************************************************************************)
\* products[:50]
PriceSample(products) == SubSeq(products, 1, Min2(PRICE_SAMPLE, Len(products)))

\* p.get("salePriceU", 0) / 100 raises a TypeError when the field is null
RECURSIVE HasNullPrice(_)
HasNullPrice(ps) ==
    IF ps = <<>> THEN FALSE
    ELSE Head(ps).has = "null" \/ HasNullPrice(Tail(ps))

\* the prices (kopecks) with sale_price > 0; a missing field counts as 0
RECURSIVE PositivePrices(_)
PositivePrices(ps) ==
    IF ps = <<>> THEN <<>>
    ELSE LET p == Head(ps)
             u == IF p.has = "num" THEN p.salePriceU ELSE 0
         IN  IF u > 0 THEN <<u>> \o PositivePrices(Tail(ps))
             ELSE PositivePrices(Tail(ps))

Returned(snapshot) == [raised |-> FALSE, snapshot |-> snapshot]

Raised == [raised |-> TRUE, snapshot |-> EMPTY]

\* outcome of the code from `data = resp.json()` on, for a decodable body
ParseBody(body) ==
    IF body.shape \in {"array", "data_null"} THEN Raised
    ELSE IF body.shape \in {"no_data", "products_null"}
    THEN Returned(EMPTY)
    ELSE LET products == body.products
             sample == PriceSample(products)
             prices == PositivePrices(sample)
         IN  IF products = <<>> THEN Returned(EMPTY)
             ELSE IF HasNullPrice(sample) THEN Raised
             ELSE IF prices = <<>> THEN Returned(EMPTY)
             ELSE LET top_id == products[1].id
                  IN  Returned(
                        [avg_price |-> RoundDiv(SumSeq(prices), Len(prices)),
                         competitors |-> Len(products),
                         min_price |-> MinSeq(prices),
                         max_price |-> MaxSeq(prices),
                         image_url |-> IF top_id # 0 THEN WbImageUrl(top_id) ELSE NoUrl,
                         product_url |-> IF top_id # 0 THEN ProductUrl(top_id) ELSE NoUrl])

(***************************************************************************)
(* State                                                                   *)
(***************************************************************************)
VARIABLES
    now,              \* time.monotonic(), seconds
    last_request_at,  \* _last_request_at
    wb_cache,         \* _wb_cache: search term -> snapshot
    call,             \* per task: the position and locals of get_wb_market_data
    requests,         \* number of outbound requests so far
    last_gap,         \* marker distance of the last two outbound requests (-1: none)
    calls_made,       \* number of calls started
    pair_stats        \* per (query, keyword): calls completed, requests, first outcome

wbVars ==
    <<now, last_request_at, wb_cache, call, requests, last_gap, calls_made, pair_stats>>

\* coroutines that may run get_wb_market_data
Tasks == {1, 2}

\* the pipeline awaits one call at a time
SeqTasks == {1}

\* latest moment, after it is due, at which the event loop resumes a sleeper
MaxLag == 1
\* longest time a request is in flight
MaxLatency == 1

IdleCall ==
    [pc |-> "idle", pair |-> <<<<>>, <<>>>>, ordinal |-> 0, term |-> <<>>, attempt |-> 0,
     wake |-> 0, result |-> EMPTY, req_times |-> <<>>, sleeps |-> <<>>,
     outcomes |-> <<>>]

InitWb ==
    /\ now = 0
    /\ last_request_at = 0
    /\ wb_cache = <<>>
    /\ call = [t \in Tasks |-> IdleCall]
    /\ requests = 0
    /\ last_gap = -1
    /\ calls_made = 0
    /\ pair_stats = [p \in Pairs |->
                       [calls |-> 0, reqs |-> 0, first |-> "none", first_result |-> EMPTY]]

(***************************************************************************)
(* get_wb_market_data                                                      *)
(***************************************************************************)
\* the lookup is missing
CacheHit_NoLookup(term) == FALSE

\* if search_term in _wb_cache
CacheHit(term) == term \in DOMAIN wb_cache

\* the snapshot is not stored
CachePut_Drop(term, value) == wb_cache

\* _wb_cache[search_term] = value
CachePut(term, value) == (term :> value) @@ wb_cache

\* the gap is measured with the retry base delay
GapWait_BaseDelay(t_now, t_last) == BASE_DELAY - (t_now - t_last)

\* wait = MIN_REQUEST_GAP - (now - _last_request_at)
GapWait(t_now, t_last) == MIN_REQUEST_GAP - (t_now - t_last)

\* the delay grows linearly
BackoffDelay_Linear(attempt) == BASE_DELAY * (attempt + 1)

\* delay = BASE_DELAY * (2 ** attempt)
BackoffDelay(attempt) == BASE_DELAY * Pow2(attempt)

\* server errors are taken for rate limiting
IsRateLimited_Or5xx(status) == status = 429 \/ status >= 500

\* one more status is taken for rate limiting
IsRateLimited_Or500(status) == status \in {429, 500}

\* if resp.status_code == 429
IsRateLimited(status) == status = 429

\* resp.raise_for_status()
RaisesForStatus(status) == status >= 400

\* class of what the attempt got, kept for the call's history
Outcome(resp) ==
    IF resp.kind # "response" THEN resp.kind
    ELSE IF resp.status = 429 THEN "429"
    ELSE IF resp.status >= 500 THEN "5xx"
    ELSE IF resp.status >= 400 THEN "4xx"
    ELSE resp.body.shape

\* the call of task t leaves the function: return (or an escaping exception)
Finish(t, c, pc, result) ==
    /\ call' = [call EXCEPT ![t] = [c EXCEPT !.pc = pc, !.result = result]]
    /\ pair_stats' =
         [pair_stats EXCEPT ![c.pair] =
            [calls |-> @.calls + 1,
             reqs |-> @.reqs + Len(c.req_times),
             first |-> IF @.first = "none" THEN pc ELSE @.first,
             first_result |-> IF @.first = "none" THEN result ELSE @.first_result]]

\* _last_request_at = time.monotonic(); resp = await client.get(...)
Send(t, c) ==
    /\ last_request_at' = now
    /\ requests' = requests + 1
    /\ last_gap' = IF requests > 0 THEN now - last_request_at ELSE last_gap
    /\ call' = [call EXCEPT ![t] =
                  [c EXCEPT !.pc = "awaiting", !.req_times = Append(@, now)]]
    /\ UNCHANGED <<wb_cache, pair_stats>>

\* top of `for attempt in range(MAX_RETRIES)`, up to the next await
Iterate(t, c) ==
    IF c.attempt >= MAX_RETRIES
    THEN \* all retries exhausted
         /\ wb_cache' = CachePut(c.term, EMPTY)
         /\ Finish(t, c, "done", EMPTY)
         /\ UNCHANGED <<last_request_at, requests, last_gap>>
    ELSE IF GapWait(now, last_request_at) > 0
    THEN \* await asyncio.sleep(wait)
         /\ call' = [call EXCEPT ![t] =
                       [c EXCEPT !.pc = "gap_sleep",
                                 !.wake = now + GapWait(now, last_request_at)]]
         /\ UNCHANGED <<last_request_at, requests, last_gap, wb_cache, pair_stats>>
    ELSE Send(t, c)

\* a caller awaits get_wb_market_data(query, keyword)
CallWb(t, query, keyword) ==
    /\ call[t].pc \in {"idle", "done", "raised"}
    /\ calls_made < MaxCalls
    /\ calls_made' = calls_made + 1
    /\ LET term == SearchTerm(query, keyword)
           c == [IdleCall EXCEPT !.pair = <<query, keyword>>,
                                 !.ordinal = pair_stats[<<query, keyword>>].calls + 1,
                                 !.term = term]
       IN  IF term = <<>>
           THEN /\ Finish(t, c, "done", EMPTY)
                /\ UNCHANGED <<last_request_at, requests, last_gap, wb_cache>>
           ELSE IF CacheHit(term)
           THEN /\ Finish(t, c, "done", wb_cache[term])
                /\ UNCHANGED <<last_request_at, requests, last_gap, wb_cache>>
           ELSE Iterate(t, c)
    /\ UNCHANGED now

\* asyncio.sleep(wait) is over: the request goes out without a second look
\* at the marker
WakeGap(t) ==
    /\ call[t].pc = "gap_sleep"
    /\ now >= call[t].wake
    /\ Send(t, call[t])
    /\ UNCHANGED <<now, calls_made>>

\* client.get completes with resp: lines 139-195
Respond(t, resp) ==
    /\ call[t].pc = "awaiting"
    /\ LET c == [call[t] EXCEPT !.outcomes = Append(@, Outcome(resp))]
       IN  IF resp.kind # "response"
           THEN \* except Exception
                /\ wb_cache' = CachePut(c.term, EMPTY)
                /\ Finish(t, c, "done", EMPTY)
           ELSE IF IsRateLimited(resp.status)
           THEN \* await asyncio.sleep(delay); continue
                /\ call' = [call EXCEPT ![t] =
                              [c EXCEPT !.pc = "backoff",
                                        !.wake = now + BackoffDelay(c.attempt),
                                        !.sleeps = Append(@, BackoffDelay(c.attempt))]]
                /\ UNCHANGED <<wb_cache, pair_stats>>
           ELSE IF RaisesForStatus(resp.status)
           THEN \* except httpx.HTTPStatusError
                /\ wb_cache' = CachePut(c.term, EMPTY)
                /\ Finish(t, c, "done", EMPTY)
           ELSE IF resp.body.shape = "not_json"
           THEN \* resp.json() raises inside the try block
                /\ wb_cache' = CachePut(c.term, EMPTY)
                /\ Finish(t, c, "done", EMPTY)
           ELSE LET out == ParseBody(resp.body)
                IN  IF out.raised
                    THEN /\ Finish(t, c, "raised", EMPTY)
                         /\ UNCHANGED wb_cache
                    ELSE /\ wb_cache' = CachePut(c.term, out.snapshot)
                         /\ Finish(t, c, "done", out.snapshot)
    /\ UNCHANGED <<now, last_request_at, requests, last_gap, calls_made>>

\* the backoff sleep is over: `continue` enters the next iteration
WakeBackoff(t) ==
    /\ call[t].pc = "backoff"
    /\ now >= call[t].wake
    /\ Iterate(t, [call[t] EXCEPT !.attempt = @ + 1])
    /\ UNCHANGED <<now, calls_made>>

\* a sleeper is overdue, or a request has been in flight for the longest time
Overdue(c) ==
    \/ c.pc \in {"gap_sleep", "backoff"} /\ now >= c.wake + MaxLag
    \/ c.pc = "awaiting" /\ now >= Last(c.req_times) + MaxLatency

InFlight(c) == c.pc \in {"gap_sleep", "backoff", "awaiting"}

\* the monotonic clock advances while a call is suspended at an await
Tick ==
    /\ now < MaxTime
    /\ \E t \in Tasks : InFlight(call[t])
    /\ \A t \in Tasks : ~Overdue(call[t])
    /\ now' = now + 1
    /\ UNCHANGED <<last_request_at, wb_cache, call, requests, last_gap, calls_made,
                   pair_stats>>

\* between two calls the caller spends MIN_REQUEST_GAP on other work; idle
\* time after the gap has elapsed changes nothing for the client
Pause ==
    /\ now + MIN_REQUEST_GAP <= MaxTime
    /\ \A t \in Tasks : ~InFlight(call[t])
    /\ now - last_request_at < MIN_REQUEST_GAP
    /\ now' = now + MIN_REQUEST_GAP
    /\ UNCHANGED <<last_request_at, wb_cache, call, requests, last_gap, calls_made,
                   pair_stats>>

(***************************************************************************)
(* Pipeline run (scripts/run_pipeline.py) and publish ledger (src/db.py)   *)
(***************************************************************************)
VARIABLES
    day,            \* calendar day of datetime.now()
    ledger,         \* rows of published_posts
    sent,           \* deliveries to a platform, per (source_url, platform)
    run,            \* position and locals of run()
    runs_made,      \* number of runs started
    last_compose    \* the post composed last: product, duplicate image seen, image
                    \* used, delivered to Telegram

plVars == <<day, ledger, sent, run, runs_made, last_compose>>

VARIABLES
    collect,        \* position and locals of the collect step of a script
    scoring         \* the last call of the scoring functions and what it returned

coVars == <<collect>>

scVars == <<scoring>>

VARIABLES
    insight         \* a product's ai_insight and the insight block of its posts

inVars == <<insight>>

VARIABLES
    cny_rate_cache, \* _cny_rate_cache of src/config.py
    utc_hour,       \* datetime.now(timezone.utc), in hours
    rate_call,      \* the last call of get_cny_to_rub and the number of calls
    rate_run        \* a pipeline run: the rate it logged and the costs it computed

rtVars == <<cny_rate_cache, utc_hour, rate_call, rate_run>>

VARIABLES
    schedule,       \* the schedule row of the chat
    responses,      \* replies to the chat in the order of their sent_at
    handler,        \* position and decision of each message handler in flight
    sent_since_reset, \* replies delivered since the last reset_daily_counters
    handled,        \* relevant messages taken up so far
    resets          \* daily resets so far

gaVars == <<schedule, responses, handler, sent_since_reset, handled, resets>>

\* the variables of the components added after the scoring engine
VARIABLES
    recent_categories, \* _recent_categories: the categories used recently
    picks              \* the categories _pick_category has returned, in order

shVars == <<recent_categories, picks>>

exVars == <<inVars, rtVars, gaVars, shVars>>

vars ==
    <<now, last_request_at, wb_cache, call, requests, last_gap, calls_made, pair_stats,
      day, ledger, sent, run, runs_made, last_compose, collect, scoring,
      insight, cny_rate_cache, utc_hour, rate_call, rate_run,
      schedule, responses, handler, sent_since_reset, handled, resets,
      recent_categories, picks>>

Platforms == {"telegram", "vk"}

NoImage == "none"

\* the products a run collects: distinct source_url; two of them show the
\* same picture, one has no picture
Catalog ==
    { [source_url |-> "u1", image_url |-> "imgA"],
      [source_url |-> "u2", image_url |-> "imgA"],
      [source_url |-> "u3", image_url |-> NoImage] }

Urls == {p.source_url : p \in Catalog}

\* longest batch a collector returns
MaxBatch == 3

\* batches: lists of products with pairwise distinct source_url
Batches ==
    {b \in UNION {[1..n -> Catalog] : n \in 0..MaxBatch} :
        \A i, j \in 1..Len(b) : i # j => b[i].source_url # b[j].source_url}

\* total_score values analyze_product may produce
Scores == {5, 9}

TopNs == {1, 2}

\* time that passes between two runs (days)
DaySteps == {14, 15}

IdleRun ==
    [pc |-> "idle", exit |-> "none", dry_run |-> FALSE, top_n |-> 0,
     VK_API_TOKEN |-> FALSE,
     raw_products |-> <<>>, i |-> 0, analyzed |-> <<>>, top |-> <<>>, idx |-> 0,
     published_count |-> 0, expected |-> <<>>, went_on |-> <<>>]

InitPipeline ==
    /\ day = 0
    /\ ledger = {}
    /\ sent = [u \in Urls, f \in Platforms |-> 0]
    /\ run = IdleRun
    /\ runs_made = 0
    /\ last_compose = [source_url |-> "none", dup |-> FALSE, image_url |-> NoImage,
                       published |-> FALSE]


(***************************************************************************)
(* Ledger queries and writes                                               *)
(***************************************************************************)
\* SELECT 1 FROM published_posts WHERE source_url = ? AND platform = ?
is_already_published(source_url, platform) ==
    \E r \in ledger : r.source_url = source_url /\ r.platform = platform

\* the ledger is not consulted
is_image_already_published_Off(image_url) == FALSE

\* SELECT 1 FROM published_posts WHERE image_url = ? AND image_url != ''
is_image_already_published(image_url) ==
    /\ image_url # NoImage
    /\ \E r \in ledger : r.image_url = image_url /\ r.image_url # NoImage

\* published to any platform within the last `days` days
is_product_recently_published(source_url, days) ==
    \E r \in ledger : r.source_url = source_url /\ day - r.published_at <= days

\* INSERT OR IGNORE under UNIQUE(source_url, platform)
LedgerInsert(rows, source_url, platform, image_url) ==
    IF \E r \in rows : r.source_url = source_url /\ r.platform = platform
    THEN rows
    ELSE rows \cup {[source_url |-> source_url, platform |-> platform,
                     published_at |-> day, image_url |-> image_url]}

\* save_published_post(post, platform="telegram", image_url=...)
save_published_post(rows, source_url, image_url) ==
    LedgerInsert(rows, source_url, "telegram", image_url)

\* save_published_vk_post(source_url, ..., image_url=...)
save_published_vk_post(rows, source_url, image_url) ==
    LedgerInsert(rows, source_url, "vk", image_url)

(***************************************************************************)
(* analyzed.sort(key=lambda p: p.total_score, reverse=True)                *)
(***************************************************************************)
Reverse(s) == [k \in 1..Len(s) |-> s[Len(s) + 1 - k]]

\* insert x into the ascending list s behind the elements that are not greater
RECURSIVE InsertAsc(_, _)
InsertAsc(s, x) ==
    IF s = <<>> THEN <<x>>
    ELSE IF Head(s).total_score <= x.total_score
         THEN <<Head(s)>> \o InsertAsc(Tail(s), x)
         ELSE <<x>> \o s

\* stable ascending sort (binary insertion, as list.sort does on short lists)
RECURSIVE SortAsc(_)
SortAsc(s) ==
    IF s = <<>> THEN <<>>
    ELSE InsertAsc(SortAsc(SubSeq(s, 1, Len(s) - 1)), Last(s))

\* ascending sort followed by reverse(): equal scores change places
SortByScoreDesc_Unstable(s) == Reverse(SortAsc(s))

\* reverse=True: the list is reversed, sorted stably and reversed again
SortByScoreDesc(s) == Reverse(SortAsc(Reverse(s)))

\* analyzed[:top_n]
TopSlice(s, n) == SubSeq(s, 1, Min2(n, Len(s)))

RECURSIVE SelectSeq2(_, _)
SelectSeq2(s, keep) ==
    IF s = <<>> THEN <<>>
    ELSE IF Head(s).raw.source_url \in keep
         THEN <<Head(s)>> \o SelectSeq2(Tail(s), keep)
         ELSE SelectSeq2(Tail(s), keep)

UrlsOf(s) == [k \in 1..Len(s) |-> s[k].raw.source_url]

(***************************************************************************)
(* run()                                                                   *)
(***************************************************************************)
\* lines 80-119: collect; an empty batch ends the run.  vk_token: whether
\* VK_API_TOKEN is set in the environment of this run's process
StartRun(batch, dry_run, top_n, vk_token) ==
    /\ run.pc = "idle"
    /\ runs_made < MaxRuns
    /\ runs_made' = runs_made + 1
    /\ run' = IF batch = <<>>
              THEN [IdleRun EXCEPT !.exit = "no_products"]
              ELSE [IdleRun EXCEPT !.pc = "analyze", !.dry_run = dry_run,
                                   !.top_n = top_n, !.VK_API_TOKEN = vk_token,
                                   !.raw_products = batch, !.i = 1]
    /\ UNCHANGED <<day, ledger, sent, last_compose>>

\* lines 125-202: one iteration of `for raw in raw_products`
Analyze(score) ==
    /\ run.pc = "analyze"
    /\ LET raw == run.raw_products[run.i]
           product == [raw |-> raw, total_score |-> score]
           analyzed == IF is_already_published(raw.source_url, "telegram")
                       THEN run.analyzed
                       ELSE Append(run.analyzed, product)
       IN  run' = [run EXCEPT !.analyzed = analyzed,
                              !.i = @ + 1,
                              !.pc = IF run.i = Len(run.raw_products)
                                     THEN "rank" ELSE "analyze"]
    /\ UNCHANGED <<day, ledger, sent, runs_made, last_compose>>

\* lines 204-225: nothing new ends the run; otherwise sort and slice
Rank ==
    /\ run.pc = "rank"
    /\ IF run.analyzed = <<>>
       THEN run' = [IdleRun EXCEPT !.exit = "no_new"]
       ELSE LET sorted == SortByScoreDesc(run.analyzed)
                fresh == {u \in Urls : ~is_product_recently_published(u, RECENT_DAYS)}
            IN  run' = [run EXCEPT !.analyzed = sorted,
                                   !.top = TopSlice(sorted, run.top_n),
                                   !.idx = 1,
                                   !.pc = "publish",
                                   !.expected =
                                      UrlsOf(TopSlice(SelectSeq2(sorted, fresh), run.top_n))]
    /\ UNCHANGED <<day, ledger, sent, runs_made, last_compose>>

\* lines 226-311: one iteration of `for idx, product in enumerate(top, 1)`;
\* tg_ok and vk_ok are what send_post and send_vk_post report
Publish(tg_ok, vk_ok) ==
    /\ run.pc = "publish"
    /\ run.idx <= Len(run.top)
    /\ LET product == run.top[run.idx]
           url == product.raw.source_url
           dup == is_image_already_published(product.raw.image_url)
           image == IF dup THEN NoImage ELSE product.raw.image_url
           cleared == [product EXCEPT !.raw.image_url = image]
           after_tg == IF tg_ok THEN save_published_post(ledger, url, image) ELSE ledger
           vk_sent == run.VK_API_TOKEN /\ vk_ok
           after_vk == IF vk_sent THEN save_published_vk_post(after_tg, url, image)
                       ELSE after_tg
       IN  IF is_product_recently_published(url, RECENT_DAYS)
           THEN /\ run' = [run EXCEPT !.idx = @ + 1]
                /\ UNCHANGED <<ledger, sent, last_compose>>
           ELSE /\ last_compose' = [source_url |-> url, dup |-> dup, image_url |-> image,
                                     published |-> ~run.dry_run /\ tg_ok]
                /\ IF run.dry_run
                   THEN /\ run' = [run EXCEPT !.idx = @ + 1,
                                              !.top[run.idx] = cleared,
                                              !.analyzed[run.idx] = cleared,
                                              !.went_on = Append(@, url)]
                        /\ UNCHANGED <<ledger, sent>>
                   ELSE /\ run' = [run EXCEPT !.idx = @ + 1,
                                              !.top[run.idx] = cleared,
                                              !.analyzed[run.idx] = cleared,
                                              !.went_on = Append(@, url),
                                              !.published_count =
                                                 IF tg_ok THEN @ + 1 ELSE @]
                        /\ ledger' = after_vk
                        /\ sent' = [sent EXCEPT
                                      ![url, "telegram"] = IF tg_ok THEN @ + 1 ELSE @,
                                      ![url, "vk"] = IF vk_sent THEN @ + 1 ELSE @]
    /\ UNCHANGED <<day, runs_made>>

\* lines 313-327: the summary log
Summary ==
    /\ run.pc = "publish"
    /\ run.idx > Len(run.top)
    /\ run' = [IdleRun EXCEPT !.exit = "summary"]
    /\ UNCHANGED <<day, ledger, sent, runs_made, last_compose>>

\* time passes between two runs
AdvanceDays(d) ==
    /\ run.pc = "idle"
    /\ runs_made >= 1
    /\ day + d <= MaxDay
    /\ day' = day + d
    /\ UNCHANGED <<ledger, sent, run, runs_made, last_compose>>

(***************************************************************************)
(* Collectors (src/src/collect) and the fallback chain of the scripts.     *)
(* Prices in CNY are integers in fen (1/100 yuan).  A URL is the sequence   *)
(* of its parts, <<"https:", rest>> or <<rest>> when the scheme is missing. *)
(***************************************************************************)
\* longest upstream content explored: items of an Apify dataset, entries of
\* the cache file
MaxItems == 2

Categories == {"all", "electronics", "toys"}

Limits == {1, 20}

Scripts == {"run_pipeline", "post_niche_review", "post_beginner_mistake"}

Sources == {"demo", "1688", "cache"}

RawProduct(source, source_url, category, price_cny) ==
    [source |-> source, source_url |-> source_url, category |-> category,
     price_cny |-> price_cny]

\* result of a collect call: a list, or an exception that leaves collect
Collected(products) == [raised |-> FALSE, products |-> products]

CollectRaised == [raised |-> TRUE, products |-> <<>>]

\* all orderings of the indices 1..n taken k at a time
Arrangements(n, k) ==
    {s \in [1..k -> 1..n] : \A i, j \in 1..k : i # j => s[i] # s[j]}

Pick(s, idx) == [i \in 1..Len(idx) |-> s[idx[i]]]

\* s[:limit]
Prefix(s, limit) == SubSeq(s, 1, Min2(limit, Len(s)))

RECURSIVE SelectObjects(_, _)
SelectObjects(s, category) ==
    IF s = <<>> THEN <<>>
    ELSE IF Head(s).category = category
         THEN <<Head(s)>> \o SelectObjects(Tail(s), category)
         ELSE SelectObjects(Tail(s), category)

(***************************************************************************)
(* Collector1688 (alibaba_1688.py)                                         *)
(***************************************************************************)
\* a JSON value holding a price: absent/None, a number (fen), or a string
\* given as its tokens: numeric runs (fen), separators "-"/"~", other text
NoValue == [t |-> "none", v |-> 0, s |-> <<>>]

Num(v) == [t |-> "num", v |-> v, s |-> <<>>]

Str(tokens) == [t |-> "str", v |-> 0, s |-> tokens]

Digits(v) == [k |-> "digits", v |-> v]

Dash == [k |-> "sep", v |-> 0]

Junk == [k |-> "junk", v |-> 0]

\* re.split(r"[-~]", text)[0]: the tokens before the first separator
RECURSIVE FirstPart(_)
FirstPart(tokens) ==
    IF tokens = <<>> \/ Head(tokens).k = "sep" THEN <<>>
    ELSE <<Head(tokens)>> \o FirstPart(Tail(tokens))

\* float(text) of the tokens of a string; a ValueError gives 0.0
FloatOfText(tokens) ==
    IF Len(tokens) = 1 /\ tokens[1].k = "digits" THEN tokens[1].v ELSE 0

\* float(str(price_integer) + str(price_decimal)) without a decimal part
FloatOf(value) == IF value.t = "num" THEN value.v ELSE FloatOfText(value.s)

\* parse_price(value)
parse_price(value) ==
    IF value.t = "num" THEN value.v
    ELSE IF value.t # "str" THEN 0
    ELSE FloatOfText(FirstPart(value.s))

\* quantity_prices: absent, or a list whose first element is a dict with a
\* price, or a list whose first element is not a dict
NoQty == [t |-> "none", price |-> NoValue]

Qty(price) == [t |-> "dict", price |-> price]

BadQty == [t |-> "scalar", price |-> NoValue]

ApifyItem(title, detail_url, price_integer, price, quantity_prices) ==
    [title |-> title, detail_url |-> detail_url, price_integer |-> price_integer,
     price |-> price, quantity_prices |-> quantity_prices]

ApifyItems ==
    { ApifyItem("t", <<"https:", "//u1">>, Num(2800), NoValue, NoQty),
      ApifyItem("t", <<"//u1">>, NoValue, Str(<<Digits(700), Dash, Digits(900)>>), NoQty),
      ApifyItem("t", <<"https:", "//u2">>, NoValue, NoValue, NoQty),
      ApifyItem("", <<"https:", "//u2">>, Num(500), NoValue, NoQty),
      ApifyItem("t", <<>>, Num(500), NoValue, NoQty),
      ApifyItem("t", <<"https:", "//u2">>, Num(500), NoValue, BadQty),
      ApifyItem("t", <<"https:", "//u2">>, NoValue, Str(<<Junk>>), Qty(Num(800))),
      ApifyItem("t", <<"https:", "//u3">>, Num(-500), NoValue, NoQty) }

\* source_url = "https:" + source_url unless it starts with "http"
NormalizeUrl(url) ==
    IF url # <<>> /\ Head(url) # "https:" THEN <<"https:">> \o url ELSE url

\* price_cny of _map_item: price_integer, then price, then quantity_prices
ItemPrice(item) ==
    LET p1 == IF item.price_integer.t = "none" THEN 0 ELSE FloatOf(item.price_integer)
        p2 == IF p1 = 0 THEN parse_price(item.price) ELSE p1
    IN  IF p2 = 0 /\ item.quantity_prices.t = "dict"
        THEN parse_price(item.quantity_prices.price)
        ELSE p2

\* an item is kept when price_cny > 0
HasPrice(price_cny) == price_cny > 0

\* _map_item(item, category): "none" for None, "raise" for an exception, else the product
map_item(item, category) ==
    IF item.title = "" THEN [r |-> "none"]
    ELSE IF NormalizeUrl(item.detail_url) = <<>> THEN [r |-> "none"]
    ELSE IF item.quantity_prices.t = "scalar" THEN [r |-> "raise"]
    ELSE IF ~HasPrice(ItemPrice(item)) THEN [r |-> "none"]
    ELSE [r |-> "product",
          product |-> RawProduct("1688", NormalizeUrl(item.detail_url), category,
                                 ItemPrice(item))]

RECURSIVE MapItems(_, _)
MapItems(items, category) ==
    IF items = <<>> THEN <<>>
    ELSE LET m == map_item(Head(items), category)
         IN  (IF m.r = "product" THEN <<m.product>> ELSE <<>>)
               \o MapItems(Tail(items), category)

\* the run of the Apify actor: no token configured, the run fails, or it
\* returns the items of the dataset
ActorRuns ==
    { [token |-> FALSE, fails |-> FALSE, items |-> <<>>],
      [token |-> TRUE, fails |-> TRUE, items |-> <<>>] }
      \cup [token : {TRUE}, fails : {FALSE},
            items : UNION {[1..n -> ApifyItems] : n \in 0..MaxItems}]

Collector1688(actor, category, limit) ==
    IF ~actor.token THEN Collected(<<>>)
    ELSE IF actor.fails THEN Collected(<<>>)
    ELSE IF actor.items = <<>> THEN Collected(<<>>)
    ELSE Collected(MapItems(Prefix(actor.items, limit), category))

(***************************************************************************)
(* JsonFileCollector (json_file_source.py)                                 *)
(***************************************************************************)
\* an element of the top-level list: a JSON object with the fields of a
\* RawProduct, or a value that is not an object
CacheEntry(obj, category, source_url, price_cny, collected_at) ==
    [obj |-> obj, category |-> category, source_url |-> source_url,
     price_cny |-> price_cny, collected_at |-> collected_at]

CacheEntries ==
    { CacheEntry(TRUE, "electronics", <<"https:", "//u1">>, Num(2850), "iso"),
      CacheEntry(TRUE, "electronics", <<"https:", "//u1">>, Num(4200), "absent"),
      CacheEntry(TRUE, "home", <<"https:", "//u2">>, NoValue, "iso"),
      CacheEntry(TRUE, "home", <<"https:", "//u3">>, Num(-100), "iso"),
      CacheEntry(TRUE, "electronics", <<"https:", "//u3">>, Str(<<Junk>>), "iso"),
      CacheEntry(TRUE, "electronics", <<"https:", "//u3">>, Num(1500), "bad"),
      CacheEntry(TRUE, "home", <<>>, Num(1500), "iso"),
      CacheEntry(FALSE, "", <<>>, NoValue, "absent") }

\* the cache file: absent, unreadable (OSError), not UTF-8
\* (UnicodeDecodeError), not JSON (JSONDecodeError), or a JSON value
CacheFiles ==
    [state : {"missing", "unreadable", "undecodable", "malformed"},
     type : {"null"}, size : {0}, entries : {<<>>}]
      \cup [state : {"json"}, type : {"null"}, size : {0}, entries : {<<>>}]
      \cup [state : {"json"}, type : {"number"}, size : {0, 1}, entries : {<<>>}]
      \cup [state : {"json"}, type : {"string", "object"}, size : {0, 1, 2},
            entries : {<<>>}]
      \cup {[state |-> "json", type |-> "array", size |-> Len(e), entries |-> e] :
              e \in UNION {[1..n -> CacheEntries] : n \in 0..MaxItems}}

\* `if not data`: None, 0, "", {} and [] are falsy
Falsy(file) == file.type = "null" \/ file.size = 0

\* RawProduct(**item): a missing source_url or a price that is not a number
\* fails validation, a missing price_cny takes the default 0.0; an invalid
\* collected_at string fails in datetime.fromisoformat
EntryProduct(entry) ==
    IF ~entry.obj THEN [r |-> "raise"]
    ELSE IF entry.collected_at = "bad" THEN [r |-> "raise"]
    ELSE IF entry.source_url = <<>> THEN [r |-> "raise"]
    ELSE IF entry.price_cny.t = "str" THEN [r |-> "raise"]
    ELSE [r |-> "product",
          product |-> RawProduct("1688", entry.source_url, entry.category,
                                 entry.price_cny.v)]

RECURSIVE MapEntries(_)
MapEntries(entries) ==
    IF entries = <<>> THEN <<>>
    ELSE LET m == EntryProduct(Head(entries))
         IN  (IF m.r = "product" THEN <<m.product>> ELSE <<>>)
               \o MapEntries(Tail(entries))

\* the exceptions caught around json.load: OSError and JSONDecodeError
CaughtOnLoad(state) == state \in {"unreadable", "malformed"}

\* the outcomes of collect; random.shuffle makes it a set
JsonFileCollector(file, category, limit) ==
    IF file.state = "missing" THEN {Collected(<<>>)}
    ELSE IF file.state # "json"
    THEN IF CaughtOnLoad(file.state) THEN {Collected(<<>>)} ELSE {CollectRaised}
    ELSE IF Falsy(file) THEN {Collected(<<>>)}
    ELSE IF file.type \in {"number", "object"} THEN {CollectRaised}
    ELSE IF file.type = "string"
    THEN IF category # "all" \/ file.size > 1 THEN {CollectRaised}
         ELSE {Collected(<<>>)}
    ELSE IF category # "all" /\ \E i \in 1..Len(file.entries) : ~file.entries[i].obj
    THEN {CollectRaised}
    ELSE LET filtered == IF category = "all" THEN <<>>
                         ELSE SelectObjects(file.entries, category)
             data == IF filtered # <<>> THEN filtered ELSE file.entries
         IN  { Collected(MapEntries(Prefix(Pick(data, idx), limit))) :
                 idx \in Arrangements(Len(data), Len(data)) }

(***************************************************************************)
(* DemoCollector (demo_source.py)                                          *)
(***************************************************************************)
\* three of the twelve built-in products
DEMO_PRODUCTS ==
    << [category |-> "electronics", price_cny |-> 2850,
        source_url |-> <<"https:", "//demo-bt-earphones-001">>],
       [category |-> "electronics", price_cny |-> 18500,
        source_url |-> <<"https:", "//demo-mini-projector-002">>],
       [category |-> "gadgets", price_cny |-> 1950,
        source_url |-> <<"https:", "//demo-neck-fan-012">>] >>

DemoProducts(items) ==
    [i \in 1..Len(items) |->
        RawProduct("demo", items[i].source_url, items[i].category, items[i].price_cny)]

\* random.sample(pool, min(limit, len(pool)))
DemoCollector(category, limit) ==
    LET matching == SelectObjects(DEMO_PRODUCTS, category)
        pool == IF category = "all" \/ matching = <<>> THEN DEMO_PRODUCTS ELSE matching
    IN  { Collected(DemoProducts(Pick(pool, idx))) :
            idx \in Arrangements(Len(pool), Min2(limit, Len(pool))) }

(***************************************************************************)
(* The collect step of the scripts                                         *)
(***************************************************************************)
IdleCollect ==
    [pc |-> "idle", script |-> "none", source |-> "none", category |-> "all",
     limit |-> 0, upstream |-> [kind |-> "none"], invoked |-> <<>>,
     returned |-> <<>>, raw_products |-> <<>>]

InitCollect == collect = IdleCollect

\* the script has a third collector behind the file cache
HasDemoFallback(script) == script # "post_niche_review"

\* the collector the script calls first for --source
FirstCollector(source) ==
    IF source = "demo" THEN "demo" ELSE IF source = "1688" THEN "1688" ELSE "cache"

\* the collector tried after name returned an empty list ("none": no more)
NextCollector(script, source, name) ==
    IF source # "1688" THEN "none"
    ELSE IF name = "1688" THEN "cache"
    ELSE IF name = "cache" /\ HasDemoFallback(script) THEN "demo"
    ELSE "none"

StartCollect(script, source, category, limit) ==
    /\ collect.pc \in {"idle", "done", "raised"}
    /\ collect' = [IdleCollect EXCEPT !.pc = FirstCollector(source), !.script = script,
                                      !.source = source, !.category = category,
                                      !.limit = limit]

\* raw_products = await X().collect(...); if not raw_products: next collector.
\* upstream is what the collector found: the actor run, the cache file
AfterCollect(name, upstream, result) ==
    IF result.raised
    THEN collect' = [collect EXCEPT !.pc = "raised",
                                    !.upstream = upstream,
                                    !.invoked = Append(@, name)]
    ELSE LET next == NextCollector(collect.script, collect.source, name)
         IN  collect' =
               [collect EXCEPT
                  !.pc = IF result.products = <<>> /\ next # "none" THEN next ELSE "done",
                  !.upstream = upstream,
                  !.invoked = Append(@, name),
                  !.returned = Append(@, result.products),
                  !.raw_products = result.products]

Collect1688(actor) ==
    /\ collect.pc = "1688"
    /\ AfterCollect("1688", actor, Collector1688(actor, collect.category, collect.limit))

CollectJsonFile(file) ==
    /\ collect.pc = "cache"
    /\ \E result \in JsonFileCollector(file, collect.category, collect.limit) :
          AfterCollect("cache", file, result)

CollectDemo ==
    /\ collect.pc = "demo"
    /\ \E result \in DemoCollector(collect.category, collect.limit) :
          AfterCollect("demo", [kind |-> "builtin"], result)

(***************************************************************************)
(* Scoring (src/src/analyze/scoring.py) and the reference price the        *)
(* scripts pass to it.  Money in RUB is an integer number of kopecks,       *)
(* prices in CNY are fen, rates are hundredths of RUB per CNY, ratings are  *)
(* tenths, scores are tenths, total_score is hundredths.  The floats of the *)
(* code are exact rationals here; round(x, n) of a value that lies exactly  *)
(* halfway between two results gives either one, as the binary float next   *)
(* to a decimal tie lies on either side of it.                              *)
(***************************************************************************)
\* competitor counts explored
MaxCompetitors == 101
MaxHour == 48
MaxRateCalls == 3
MaxMessages == 4
MaxResets == 1
\* calls of _pick_category explored, and how far into the available categories
\* the random choice reaches
MaxPicks == 10
MaxChoice == 2

CNY_TO_RUB == 1250

DELIVERY_PCT == 20

CUSTOMS_PCT == 15

TREND_WEIGHT == 35

COMPETITION_WEIGHT == 25

MARGIN_WEIGHT == 30

RELIABILITY_WEIGHT == 10

DEFAULT_COMPETITORS == 30

DEFAULT_WB_PRICE == 100000

MARKUP == 3

Abs(x) == IF x < 0 THEN 0 - x ELSE x

\* round(n / d, ...) for d > 0: the nearest integers to n / d
RoundChoices(n, d) ==
    {q \in {n \div d, (n \div d) + 1} : 2 * Abs(n - q * d) <= d}

LandedTotal_NoCustoms(price_rub, delivery_cost, customs_duty) ==
    price_rub + delivery_cost

\* total = price_rub + delivery_cost + customs_duty
LandedTotal(price_rub, delivery_cost, customs_duty) ==
    price_rub + delivery_cost + customs_duty

\* estimate_costs(product, cny_rate): amounts in 1/10000 kopeck before rounding
EstimateCosts(price_cny, cny_rate) ==
    LET price_rub == price_cny * cny_rate * 100
        delivery_cost == (price_rub \div 100) * DELIVERY_PCT
        customs_duty == (price_rub \div 100) * CUSTOMS_PCT
        total == LandedTotal(price_rub, delivery_cost, customs_duty)
    IN  { [price_rub |-> a, delivery_cost_est |-> b, customs_duty_est |-> c,
           total_landed_cost |-> t] :
            a \in RoundChoices(price_rub, 10000),
            b \in RoundChoices(delivery_cost, 10000),
            c \in RoundChoices(customs_duty, 10000),
            t \in RoundChoices(total, 10000) }

TrendScore(sales_volume) ==
    IF sales_volume >= 10000 THEN 10
    ELSE IF sales_volume >= 5000 THEN 8
    ELSE IF sales_volume >= 1000 THEN 6
    ELSE IF sales_volume >= 500 THEN 4
    ELSE IF sales_volume >= 100 THEN 2
    ELSE 1

CompetitionScore_Direct(wb_competitors) ==
    IF wb_competitors = 0 THEN 1
    ELSE IF wb_competitors <= 5 THEN 2
    ELSE IF wb_competitors <= 20 THEN 4
    ELSE IF wb_competitors <= 50 THEN 6
    ELSE IF wb_competitors <= 100 THEN 8
    ELSE 9

CompetitionScore(wb_competitors) ==
    IF wb_competitors = 0 THEN 9
    ELSE IF wb_competitors <= 5 THEN 8
    ELSE IF wb_competitors <= 20 THEN 6
    ELSE IF wb_competitors <= 50 THEN 4
    ELSE IF wb_competitors <= 100 THEN 2
    ELSE 1

MarginDefined_PriceOnly(total_landed_cost, wb_avg_price) == wb_avg_price > 0

\* if total_landed_cost > 0 and wb_avg_price > 0
MarginDefined(total_landed_cost, wb_avg_price) ==
    total_landed_cost > 0 /\ wb_avg_price > 0

MarginScore_From50(margin_rub, wb_avg_price) ==
    IF margin_rub * 100 >= 50 * wb_avg_price THEN 10
    ELSE IF margin_rub * 100 >= 45 * wb_avg_price THEN 8
    ELSE IF margin_rub * 100 >= 30 * wb_avg_price THEN 6
    ELSE IF margin_rub * 100 >= 15 * wb_avg_price THEN 4
    ELSE IF margin_rub > 0 THEN 2
    ELSE 0

\* the step function of margin_pct = margin_rub / wb_avg_price * 100, for
\* wb_avg_price > 0
MarginScore(margin_rub, wb_avg_price) ==
    IF margin_rub * 100 >= 60 * wb_avg_price THEN 10
    ELSE IF margin_rub * 100 >= 45 * wb_avg_price THEN 8
    ELSE IF margin_rub * 100 >= 30 * wb_avg_price THEN 6
    ELSE IF margin_rub * 100 >= 15 * wb_avg_price THEN 4
    ELSE IF margin_rub > 0 THEN 2
    ELSE 0

Reliability_Uncapped(supplier_years, rating) ==
    supplier_years * 150 + rating * 15

\* min(10.0, supplier_years * 1.5 + rating * 1.5), in hundredths
Reliability(supplier_years, rating) ==
    Min2(1000, supplier_years * 150 + rating * 15)

TotalWeighted_EqualWeights(trend, competition, margin, reliability) ==
    trend * 2500 + competition * 2500 + margin * 2500 + reliability * 25

\* trend * TREND_WEIGHT + ... + reliability * RELIABILITY_WEIGHT, in 1/10000
TotalWeighted(trend, competition, margin, reliability) ==
    trend * TREND_WEIGHT * 100 + competition * COMPETITION_WEIGHT * 100
      + margin * MARGIN_WEIGHT * 100 + reliability * RELIABILITY_WEIGHT

\* compute_scores(product, total_landed_cost, wb_avg_price, wb_competitors)
ComputeScores(product, total_landed_cost, wb_avg_price, wb_competitors) ==
    LET trend == TrendScore(product.sales_volume)
        competition == CompetitionScore(wb_competitors)
        defined == MarginDefined(total_landed_cost, wb_avg_price)
        margin_rub == IF defined THEN wb_avg_price - total_landed_cost ELSE 0
        margin == IF defined THEN MarginScore(margin_rub, wb_avg_price) ELSE 0
        reliability == Reliability(product.supplier_years, product.rating)
        total == TotalWeighted(trend, competition, margin, reliability)
    IN  { [trend_score |-> trend * 10, competition_score |-> competition * 10,
           margin_score |-> margin * 10, reliability_score |-> r,
           total_score |-> t, margin_pct |-> p, margin_rub |-> margin_rub] :
            r \in RoundChoices(reliability, 10),
            t \in RoundChoices(total, 100),
            p \in IF defined THEN RoundChoices(margin_rub * 1000, wb_avg_price)
                  ELSE {0} }

\* analyze_product(product, wb_avg_price, wb_competitors)
AnalyzeProduct(product, wb_avg_price, wb_competitors) ==
    UNION { { [costs |-> costs, scores |-> scores] :
                scores \in ComputeScores(product, costs.total_landed_cost,
                                         wb_avg_price, wb_competitors) } :
              costs \in EstimateCosts(product.price_cny, CNY_TO_RUB) }

\* _CATEGORY_WB_FALLBACK.get(category, (1500, 35))
CategoryFallback(category) ==
    IF category = "electronics" THEN [price |-> 350000, competitors |-> 40]
    ELSE IF category = "gadgets" THEN [price |-> 200000, competitors |-> 35]
    ELSE IF category = "home" THEN [price |-> 150000, competitors |-> 50]
    ELSE [price |-> 150000, competitors |-> 35]

\* the last resort of run_pipeline when the landed cost rounds to 0
LastResort_None(category) == 0

LastResort(category) == CategoryFallback(category).price

\* run_pipeline: wb_price, wb_comps after `if wb_price == 0`
PipelineReference(product, wb_data) ==
    IF wb_data.avg_price # 0
    THEN {[price |-> wb_data.avg_price, competitors |-> wb_data.competitors]}
    ELSE IF product.wb_est_price > 0
    THEN {[price |-> product.wb_est_price, competitors |-> DEFAULT_COMPETITORS]}
    ELSE { [price |-> IF c.total_landed_cost > 0
                      THEN c.total_landed_cost * MARKUP
                      ELSE LastResort(product.category),
            competitors |-> CategoryFallback(product.category).competitors] :
             c \in EstimateCosts(product.price_cny, CNY_TO_RUB) }

\* the other scripts: avg_price or wb_est_price or 1000, competitors or 30
ScriptReference(product, wb_data) ==
    {[price |-> IF wb_data.avg_price # 0 THEN wb_data.avg_price
                ELSE IF product.wb_est_price # 0 THEN product.wb_est_price
                ELSE DEFAULT_WB_PRICE,
      competitors |-> IF wb_data.competitors # 0 THEN wb_data.competitors
                      ELSE DEFAULT_COMPETITORS]}

Reference(script, product, wb_data) ==
    IF script = "run_pipeline" THEN PipelineReference(product, wb_data)
    ELSE ScriptReference(product, wb_data)

(***************************************************************************)
(* Inputs of the scoring functions                                         *)
(***************************************************************************)
ScoredProduct(category, price_cny, wb_est_price, sales_volume, supplier_years, rating) ==
    [category |-> category, price_cny |-> price_cny, wb_est_price |-> wb_est_price,
     sales_volume |-> sales_volume, supplier_years |-> supplier_years,
     rating |-> rating]

\* products as the collectors hand them over, the file cache included
ScoredProducts ==
    { ScoredProduct(c, p, e, s, 0, r) :
        c \in {"electronics", "bags"}, p \in {-100, 0, 1, 10, 2850},
        e \in {-100, 0, 250000}, s \in {0, 15200}, r \in {1, 47} }

\* sales_volume, supplier_years, rating of the products scored directly
Profiles ==
    { ScoredProduct("electronics", 2850, 0, s, y, r) :
        s \in {0, 100, 500, 1000, 5000, 10000}, y \in {0, 1, 6}, r \in {-30, 0, 1, 5, 47} }

\* (total_landed_cost, wb_avg_price) in kopecks: at, next to and between the
\* thresholds of the margin, and with one of the two not positive
CostPricePairs ==
    { <<4000, 10000>>, <<4003, 10000>>, <<5500, 10000>>, <<5504, 10000>>,
      <<7000, 10000>>, <<8500, 10000>>, <<8504, 10000>>, <<9996, 10000>>,
      <<10000, 10000>>, <<10004, 10000>>, <<12000, 10000>>, <<2000, 10000>>,
      <<4500, 10000>>,
      <<0, 10000>>, <<-100, 10000>>, <<10000, 0>>, <<10000, -100>>, <<0, 0>> }

\* the arguments of the direct calls of compute_scores
ScoreCalls ==
    { <<p, cp[1], cp[2], c>> :
        p \in Profiles, cp \in CostPricePairs, c \in {0, 3, 30} }
      \cup { <<ScoredProduct("electronics", 2850, 0, 0, 0, 0), 4000, 10000, c>> :
               c \in 0..MaxCompetitors }

\* unit prices (fen) and exchange rates of the direct calls of estimate_costs
UnitPrices == {1, 10, 30, 150, 2850}

Rates == {1100, 1237, 1250, 1300}

\* demo products with the fields the engine reads (DEMO_PRODUCTS[0], [2], [3])
DemoScored ==
    { ScoredProduct("electronics", 2850, 250000, 15200, 6, 47),
      ScoredProduct("electronics", 4200, 320000, 22000, 8, 46),
      ScoredProduct("car_accessories", 850, 55000, 35000, 11, 48) }

\* the arguments of the direct calls of analyze_product
AnalyzeCalls ==
    { <<p, w, c>> : p \in DemoScored, w \in {250000, 55000, 0}, c \in {0, 12, 30} }

\* snapshots get_wb_market_data returns
Snapshots ==
    {EMPTY} \cup {ParseBody(b).snapshot : b \in {x \in Bodies : ~ParseBody(x).raised}}

\* one call of a scoring function per behaviour
IdleScoring == [op |-> "idle"]

InitScoring == scoring = IdleScoring

\* a script scores a collected product with the snapshot of the client
ScoreInScript(script, product, wb_data) ==
    /\ scoring.op = "idle"
    /\ \E ref \in Reference(script, product, wb_data) :
       \E a \in AnalyzeProduct(product, ref.price, ref.competitors) :
        scoring' = [op |-> "analyze_product", script |-> script, product |-> product,
                    wb_data |-> wb_data, wb_avg_price |-> ref.price,
                    wb_competitors |-> ref.competitors,
                    costs |-> a.costs, scores |-> a.scores]

\* analyze_product called on its own
CallAnalyzeProduct(product, wb_avg_price, wb_competitors) ==
    /\ scoring.op = "idle"
    /\ \E a \in AnalyzeProduct(product, wb_avg_price, wb_competitors) :
        scoring' = [op |-> "analyze_direct", product |-> product,
                    wb_avg_price |-> wb_avg_price,
                    wb_competitors |-> wb_competitors,
                    costs |-> a.costs, scores |-> a.scores]

\* compute_scores called on its own
CallComputeScores(product, total_landed_cost, wb_avg_price, wb_competitors) ==
    /\ scoring.op = "idle"
    /\ \E s \in ComputeScores(product, total_landed_cost, wb_avg_price, wb_competitors) :
        scoring' = [op |-> "compute_scores", product |-> product,
                    total_landed_cost |-> total_landed_cost,
                    wb_avg_price |-> wb_avg_price,
                    wb_competitors |-> wb_competitors, scores |-> s]

\* estimate_costs called on its own
CallEstimateCosts(price_cny, cny_rate) ==
    /\ scoring.op = "idle"
    /\ \E c \in EstimateCosts(price_cny, cny_rate) :
        scoring' = [op |-> "estimate_costs", price_cny |-> price_cny,
                    cny_rate |-> cny_rate, costs |-> c]

(***************************************************************************)
(* AI insight (src/analyze/ai_analysis.py) and its place in a post          *)
(* (src/compose/telegram_post.py, src/compose/vk_post.py). A text is the    *)
(* sequence of its characters; a Cyrillic letter is written "cyr_" and its  *)
(* transliteration.                                                        *)
(***************************************************************************)
ERROR_MARKERS ==
    { <<"cyr_n", "cyr_e", "cyr_d", "cyr_o", "cyr_s", "cyr_t", "cyr_u", "cyr_p", "cyr_e", "cyr_n">>,
      <<"E", "r", "r", "o", "r">>,
      <<"e", "r", "r", "o", "r">>,
      <<"A", "P", "I", " ", "cyr_k", "cyr_l", "cyr_yu", "cyr_ch">>,
      <<"a", "u", "t", "h", "e", "n", "t", "i", "c", "a", "t", "i", "o", "n">>,
      <<"4", "0", "1">>,
      <<"4", "0", "3">>,
      <<"5", "0", "0">>,
      <<"t", "i", "m", "e", "o", "u", "t">>,
      <<"T", "r", "a", "c", "e", "b", "a", "c", "k">> }

\* `marker in text`
Contains(text, marker) ==
    \E i \in 1..(Len(text) - Len(marker) + 1) :
        SubSeq(text, i, i + Len(marker) - 1) = marker

is_valid_insight_BlankOnly(text) ==
    text # <<>> /\ Strip(text) # <<>>

\* _is_valid_insight(text)
is_valid_insight(text) ==
    /\ text # <<>>
    /\ Strip(text) # <<>>
    /\ ~ \E marker \in ERROR_MARKERS : Contains(text, marker)

\* length of the leading run of characters other than "*"
RECURSIVE NonStarRun(_)
NonStarRun(t) ==
    IF t = <<>> \/ Head(t) = "*" THEN 0 ELSE 1 + NonStarRun(Tail(t))

\* length of X when t starts with **X** for a non-empty X without "*", else 0
BoldLen(t) ==
    IF Len(t) >= 5 /\ t[1] = "*" /\ t[2] = "*"
    THEN LET k == NonStarRun(SubSeq(t, 3, Len(t)))
         IN  IF k >= 1 /\ Len(t) >= k + 4 /\ t[k + 3] = "*" /\ t[k + 4] = "*"
             THEN k ELSE 0
    ELSE 0

\* re.sub(r"\*\*([^*]+)\*\*", r"\1", text)
RECURSIVE RemoveBold(_)
RemoveBold(t) ==
    IF t = <<>> THEN <<>>
    ELSE LET k == BoldLen(t)
         IN  IF k > 0
             THEN SubSeq(t, 3, k + 2) \o RemoveBold(SubSeq(t, k + 5, Len(t)))
             ELSE <<Head(t)>> \o RemoveBold(Tail(t))

InsightWord == <<"cyr_n", "cyr_s", "cyr_a", "cyr_j", "cyr_t">>

\* re.sub(r"^[Ии]нсайт\s*:\s*", "", text)
RemoveLabel(t) ==
    IF /\ Len(t) >= 6
       /\ t[1] \in {"cyr_cap_i", "cyr_i"}
       /\ SubSeq(t, 2, 6) = InsightWord
    THEN LET rest == LStrip(SubSeq(t, 7, Len(t)))
         IN  IF rest # <<>> /\ Head(rest) = ":" THEN LStrip(Tail(rest)) ELSE t
    ELSE t

\* _clean_insight(text)
clean_insight(text) == Strip(RemoveLabel(RemoveBold(text)))

NoInsight == [present |-> FALSE, text |-> <<>>]

\* the insight block of _compose_compact (cut to 120 characters), of the full
\* compose_post and of compose_vk_post
InsightBlock(kind, ai_insight) ==
    IF is_valid_insight(ai_insight)
    THEN [present |-> TRUE,
          text |-> IF kind = "compact"
                   THEN Prefix(clean_insight(ai_insight), COMPACT_INSIGHT)
                   ELSE clean_insight(ai_insight)]
    ELSE NoInsight

\* texts of a model answer or of a stored ai_insight
Texts ==
    { <<>>,
      <<" ">>,
      <<"o", "k">>,
      <<" ", "o", "k", " ">>,
      <<"*", "*", "o", "k", "*", "*">>,
      <<"cyr_cap_i", "cyr_n", "cyr_s", "cyr_a", "cyr_j", "cyr_t", ":", " ", "o", "k">>,
      <<"cyr_i", "cyr_n", "cyr_s", "cyr_a", "cyr_j", "cyr_t", " ", ":", "o", "k">>,
      <<"E", "r", "r", "o", "r", " ", "4", "0", "1">>,
      <<"n", "o", " ", "e", "r", "r", "o", "r">>,
      <<"E", "R", "R", "O", "R">>,
      <<"T", "i", "m", "e", "o", "u", "t">>,
      <<"t", "i", "m", "e", "o", "u", "t">>,
      <<"A", "I", " ", "cyr_n", "cyr_e", "cyr_d", "cyr_o", "cyr_s", "cyr_t", "cyr_u", "cyr_p", "cyr_e", "cyr_n">>,
      <<"cyr_n", "cyr_e", "cyr_t", " ", "A", "P", "I", " ", "cyr_k", "cyr_l", "cyr_yu", "cyr_ch">>,
      <<"E", "r", "*", "*", "r", "o", "*", "*", "r">>,
      <<"x", " ", "5", "0", "0">>,
      <<"4", "0", "3">>,
      <<"a", "u", "t", "h", "e", "n", "t", "i", "c", "a", "t", "i", "o", "n">>,
      <<"T", "r", "a", "c", "e", "b", "a", "c", "k">>,
      <<"*", "*", "a", "*", "b", "*", "*">> }

\* str(e) of an exception of the model call
ErrorTexts ==
    { <<"4", "0", "1">>, <<"t", "i", "m", "e", "o", "u", "t">>, <<"E", "r", "r", "o", "r">>, <<"x">> }

\* what client.messages.create does: raise, or return a message whose
\* content is a list of text blocks
ModelOutcomes ==
    [kind : {"raises"}, error : ErrorTexts, content : {<<>>}]
      \cup [kind : {"returns"}, error : {<<>>},
            content : {<<>>} \cup {<<t>> : t \in Texts}]

\* generate_insight(product)
generate_insight(api_key, outcome) ==
    IF ~api_key THEN <<>>
    ELSE IF outcome.kind = "raises" THEN <<>>
    ELSE IF outcome.content = <<>> THEN <<>>   \* IndexError, caught
    ELSE Strip(outcome.content[1])

IdleInsight ==
    [pc |-> "idle", origin |-> "none", api_key |-> FALSE,
     outcome |-> [kind |-> "none", error |-> <<>>, content |-> <<>>],
     ai_insight |-> <<>>, kind |-> "none", block |-> NoInsight, vk_block |-> NoInsight]

InitInsight == insight = IdleInsight

\* product.ai_insight = await generate_insight(product)
GenerateInsight(api_key, outcome) ==
    /\ insight.pc = "idle"
    /\ insight' = [IdleInsight EXCEPT !.pc = "analyzed", !.origin = "generated",
                                      !.api_key = api_key, !.outcome = outcome,
                                      !.ai_insight = generate_insight(api_key, outcome)]

\* an AnalyzedProduct built from a stored row: ai_insight is what the row holds
LoadAnalyzed(text) ==
    /\ insight.pc = "idle"
    /\ insight' = [IdleInsight EXCEPT !.pc = "analyzed", !.origin = "stored",
                                      !.ai_insight = text]

\* compose_post(product): the compact caption when there is an image and it
\* fits 1024 characters, else the full text
ComposePost(has_image, fits) ==
    /\ insight.pc = "analyzed"
    /\ LET kind == IF has_image /\ fits THEN "compact" ELSE "full"
       IN  insight' = [insight EXCEPT !.pc = "composed", !.kind = kind,
                                      !.block = InsightBlock(kind, insight.ai_insight)]

\* compose_vk_post(product)
ComposeVkPost ==
    /\ insight.pc = "composed"
    /\ insight' = [insight EXCEPT !.pc = "composed_vk",
                                  !.vk_block = InsightBlock("vk", insight.ai_insight)]

(***************************************************************************)
(* Exchange rate (src/config.py): rates in hundredths of a rouble           *)
(***************************************************************************)
EmptyRateCache == [has |-> FALSE, rate |-> 0, fetched_at |-> 0]

\* what httpx.get and the parsing of its answer meet
RateAnswers ==
    [kind : {"unreachable", "status_error", "bad_xml", "no_cny", "bad_value"},
     value : {0}, nominal : {1}]
      \cup [kind : {"cny"}, value : {1100, 12370}, nominal : {0, 1, 10}]

\* the cache check: cached and younger than 24 hours
RateCacheFresh(cache, hour) ==
    cache.has /\ hour - cache.fetched_at < CACHE_HOURS

\* get_cny_to_rub(): what it returns, whether it issued the HTTP request,
\* whether an exception left it, and the cache afterwards
get_cny_to_rub(cache, hour, answer) ==
    IF RateCacheFresh(cache, hour)
    THEN [result |-> cache.rate, http |-> FALSE, raised |-> FALSE, cache |-> cache]
    ELSE IF answer.kind = "cny" /\ answer.nominal # 0
    THEN LET fetched == answer.value \div answer.nominal
         IN  [result |-> fetched, http |-> TRUE, raised |-> FALSE,
              cache |-> [has |-> TRUE, rate |-> fetched, fetched_at |-> hour]]
    ELSE \* an exception swallowed by `except Exception: pass`, or no CNY entry
         [result |-> IF cache.has THEN cache.rate ELSE CNY_TO_RUB_FALLBACK,
          http |-> TRUE, raised |-> FALSE, cache |-> cache]

NoRateCall ==
    [n |-> 0, answer |-> "none", before |-> EmptyRateCache, hour |-> 0,
     result |-> 0, http |-> FALSE, raised |-> FALSE]

IdleRateRun ==
    [pc |-> "idle", logged |-> 0, price_cny |-> 0,
     costs |-> [price_rub |-> 0, delivery_cost_est |-> 0, customs_duty_est |-> 0,
                total_landed_cost |-> 0]]

InitRate ==
    /\ cny_rate_cache = EmptyRateCache
    /\ utc_hour = 0
    /\ rate_call = NoRateCall
    /\ rate_run = IdleRateRun

\* the bookkeeping of one call of get_cny_to_rub
RecordRateCall(answer, out) ==
    /\ rate_call.n < MaxRateCalls
    /\ cny_rate_cache' = out.cache
    /\ rate_call' = [n |-> rate_call.n + 1, answer |-> answer.kind,
                     before |-> cny_rate_cache, hour |-> utc_hour,
                     result |-> out.result, http |-> out.http, raised |-> out.raised]

\* some module calls get_cny_to_rub()
CallGetRate(answer) ==
    /\ RecordRateCall(answer, get_cny_to_rub(cny_rate_cache, utc_hour, answer))
    /\ UNCHANGED <<utc_hour, rate_run>>

\* run(): logger.info("CNY/RUB rate: ...", get_cny_to_rub())
StartRateRun(answer) ==
    /\ rate_run.pc = "idle"
    /\ LET out == get_cny_to_rub(cny_rate_cache, utc_hour, answer)
       IN  /\ RecordRateCall(answer, out)
           /\ rate_run' = [IdleRateRun EXCEPT !.pc = "started", !.logged = out.result]
    /\ UNCHANGED utc_hour

\* run(): analyze_product(raw, ...) for one of the run's products
AnalyzeInRun(product, wb_avg_price, wb_competitors) ==
    /\ rate_run.pc \in {"started", "analyzed"}
    /\ \E a \in AnalyzeProduct(product, wb_avg_price, wb_competitors) :
         rate_run' = [rate_run EXCEPT !.pc = "analyzed",
                                      !.price_cny = product.price_cny,
                                      !.costs = a.costs]
    /\ UNCHANGED <<cny_rate_cache, utc_hour, rate_call>>

HourSteps == {12}

\* hours pass
PassHours(h) ==
    /\ utc_hour + h <= MaxHour
    /\ utc_hour' = utc_hour + h
    /\ UNCHANGED <<cny_rate_cache, rate_call, rate_run>>

(***************************************************************************)
(* Growth agent (src/growth_agent): the handlers of the relevant messages   *)
(* of one chat run as concurrent tasks, each on_message: think, then act    *)
(***************************************************************************)
Handlers == {1, 2}

MaxPerDayChoices == {1, DEFAULT_MAX_PER_DAY}

IdleHandler == [pc |-> "idle", include_link |-> FALSE, row |-> 0]

\* the row get_or_create_schedule inserts: the column defaults
DefaultSchedule ==
    [is_active |-> TRUE, max_messages_per_day |-> DEFAULT_MAX_PER_DAY,
     messages_today |-> 0]

InitGrowth ==
    /\ schedule = DefaultSchedule
    /\ responses = <<>>
    /\ handler = [h \in Handlers |-> IdleHandler]
    /\ sent_since_reset = 0
    /\ handled = 0
    /\ resets = 0

\* the rows of the responses table, latest sent_at first
RECURSIVE SavedDesc(_)
SavedDesc(rows) ==
    IF rows = <<>> THEN <<>>
    ELSE IF Last(rows).saved
         THEN <<Last(rows)>> \o SavedDesc(SubSeq(rows, 1, Len(rows) - 1))
         ELSE SavedDesc(SubSeq(rows, 1, Len(rows) - 1))

\* count_responses_for_link_ratio(chat_id, last_n)
count_responses_for_link_ratio(rows, last_n) ==
    LET sub == Prefix(SavedDesc(rows), last_n)
    IN  Cardinality({i \in 1..Len(sub) : sub[i].included_channel_link})

\* _should_include_link(chat_id)
should_include_link(rows) ==
    count_responses_for_link_ratio(rows, CHANNEL_LINK_EVERY_N_RESPONSES) = 0

\* is_chat_allowed(chat_id); cooldown_until is NULL, nothing sets it
is_chat_allowed(sched) ==
    /\ sched.is_active
    /\ ~(sched.messages_today >= sched.max_messages_per_day)

\* the operator sets the chat's limit or switches the chat off before the
\* agent takes up messages
ConfigureChat(is_active, max_messages_per_day) ==
    /\ handled = 0
    /\ schedule = DefaultSchedule
    /\ schedule' = [schedule EXCEPT !.is_active = is_active,
                                    !.max_messages_per_day = max_messages_per_day]
    /\ schedule' # schedule
    /\ UNCHANGED <<responses, handler, sent_since_reset, handled, resets>>

\* think(message) for a relevant message: the LLM says whether to respond,
\* and a positive decision reads the link ratio
Think(h, should_respond) ==
    /\ handler[h].pc = "idle"
    /\ handled < MaxMessages
    /\ handled' = handled + 1
    /\ handler' = [handler EXCEPT ![h] =
                     IF should_respond
                     THEN [IdleHandler EXCEPT !.pc = "decided",
                                              !.include_link = should_include_link(responses)]
                     ELSE IdleHandler]
    /\ UNCHANGED <<schedule, responses, sent_since_reset, resets>>

\* act: allowed = await db.is_chat_allowed(...), then the random delay starts
CheckAllowed(h) ==
    /\ handler[h].pc = "decided"
    /\ handler' = [handler EXCEPT ![h] =
                     IF is_chat_allowed(schedule)
                     THEN [@ EXCEPT !.pc = "sleeping"]
                     ELSE IdleHandler]
    /\ UNCHANGED <<schedule, responses, sent_since_reset, handled, resets>>

\* act: the delay is over; send_message delivers the reply or fails, and
\* the Response gets its sent_at
SendReply(h, ok) ==
    /\ handler[h].pc = "sleeping"
    /\ IF ok
       THEN /\ responses' = Append(responses,
                                   [included_channel_link |-> handler[h].include_link,
                                    saved |-> FALSE])
            /\ sent_since_reset' = sent_since_reset + 1
            /\ handler' = [handler EXCEPT ![h] =
                             [@ EXCEPT !.pc = "sent", !.row = Len(responses) + 1]]
       ELSE /\ handler' = [handler EXCEPT ![h] = IdleHandler]
            /\ UNCHANGED <<responses, sent_since_reset>>
    /\ UNCHANGED <<schedule, handled, resets>>

\* act: await db.save_response(resp)
SaveResponse(h) ==
    /\ handler[h].pc = "sent"
    /\ responses' = [responses EXCEPT ![handler[h].row].saved = TRUE]
    /\ handler' = [handler EXCEPT ![h] = [@ EXCEPT !.pc = "saved"]]
    /\ UNCHANGED <<schedule, sent_since_reset, handled, resets>>

\* act: await db.increment_messages_today(chat_id)
IncrementToday(h) ==
    /\ handler[h].pc = "saved"
    /\ schedule' = [schedule EXCEPT !.messages_today = @ + 1]
    /\ handler' = [handler EXCEPT ![h] = IdleHandler]
    /\ UNCHANGED <<responses, sent_since_reset, handled, resets>>

\* run_daily_tasks: reset_daily_counters() at 00:00 UTC
ResetDaily ==
    /\ resets < MaxResets
    /\ resets' = resets + 1
    /\ schedule' = [schedule EXCEPT !.messages_today = 0]
    /\ sent_since_reset' = 0
    /\ UNCHANGED <<responses, handler, handled>>

(***************************************************************************)
(* Scheduler (scripts/scheduler.py): rotation of the categories            *)
(***************************************************************************)
ALL_CATEGORIES ==
    <<"electronics", "gadgets", "home", "phone_accessories",
      "car_accessories", "led_lighting", "beauty_devices", "smart_home",
      "outdoor", "toys", "health", "kitchen", "pet", "sport", "office", "kids">>

InitScheduler ==
    /\ recent_categories = <<>>
    /\ picks = <<>>

\* c in recent
InList(c, recent) == \E i \in 1..Len(recent) : recent[i] = c

available_Unfiltered(recent) == ALL_CATEGORIES

\* [c for c in ALL_CATEGORIES if c not in _recent_categories]
available(recent) == SelectSeq(ALL_CATEGORIES, LAMBDA c : ~InList(c, recent))

\* _pick_category(); random.choice takes the r-th available category
PickCategory(r) ==
    LET cleared == available(recent_categories) = <<>>
        recent == IF cleared THEN <<>> ELSE recent_categories
        avail == IF cleared THEN ALL_CATEGORIES ELSE available(recent_categories)
        cat == avail[r]
        appended == Append(recent, cat)
    IN  /\ Len(picks) < MaxPicks
        /\ r \in 1..Len(avail)
        /\ recent_categories' =
              IF Len(appended) > RECENT_LIMIT THEN Tail(appended) ELSE appended
        /\ picks' = Append(picks, cat)

(***************************************************************************)
(* Specifications                                                          *)
(***************************************************************************)
Init == InitWb /\ InitPipeline /\ InitCollect /\ InitScoring /\ InitInsight
          /\ InitRate /\ InitGrowth /\ InitScheduler

\* sequential use of the market-data client
NextWb ==
    \/ \E t \in SeqTasks, p \in Pairs :
          CallWb(t, p[1], p[2]) /\ UNCHANGED <<plVars, coVars, scVars, exVars>>
    \/ \E t \in SeqTasks : WakeGap(t) /\ UNCHANGED <<plVars, coVars, scVars, exVars>>
    \/ \E t \in SeqTasks, r \in Responses : Respond(t, r) /\ UNCHANGED <<plVars, coVars, scVars, exVars>>
    \/ \E t \in SeqTasks : WakeBackoff(t) /\ UNCHANGED <<plVars, coVars, scVars, exVars>>
    \/ Tick /\ UNCHANGED <<plVars, coVars, scVars, exVars>>
    \/ Pause /\ UNCHANGED <<plVars, coVars, scVars, exVars>>

SpecWb == Init /\ [][NextWb]_vars

\* a pair with a search term, and the answers 429 and 200 with listings
ConcurrentPairs == {p \in Pairs : SearchTerm(p[1], p[2]) = <<"b">>}

ConcurrentResponses ==
    {r \in Responses :
        \/ r.kind = "response" /\ r.status = 429
        \/ /\ r.kind = "response" /\ r.status = 200 /\ r.body.shape = "products"
           /\ Len(r.body.products) = 3}

\* a second caller makes one call, while a call of the first caller is
\* suspended at an await
SecondCaller(t) ==
    \/ t \in SeqTasks
    \/ call[t].pc = "idle" /\ \E u \in SeqTasks : InFlight(call[u])

\* two callers use the client at once: their calls interleave at the awaits
NextWbConcurrent ==
    \/ \E t \in Tasks, p \in ConcurrentPairs :
          SecondCaller(t) /\ CallWb(t, p[1], p[2])
            /\ UNCHANGED <<plVars, coVars, scVars, exVars>>
    \/ \E t \in Tasks : WakeGap(t) /\ UNCHANGED <<plVars, coVars, scVars, exVars>>
    \/ \E t \in Tasks, r \in ConcurrentResponses :
          Respond(t, r) /\ UNCHANGED <<plVars, coVars, scVars, exVars>>
    \/ \E t \in Tasks : WakeBackoff(t) /\ UNCHANGED <<plVars, coVars, scVars, exVars>>
    \/ Tick /\ UNCHANGED <<plVars, coVars, scVars, exVars>>
    \/ Pause /\ UNCHANGED <<plVars, coVars, scVars, exVars>>

SpecWbConcurrent == Init /\ [][NextWbConcurrent]_vars

\* pipeline runs against the ledger
NextPipeline ==
    \/ \E b \in Batches, d \in BOOLEAN, n \in TopNs, v \in BOOLEAN :
          StartRun(b, d, n, v) /\ UNCHANGED <<wbVars, coVars, scVars, exVars>>
    \/ \E s \in Scores : Analyze(s) /\ UNCHANGED <<wbVars, coVars, scVars, exVars>>
    \/ Rank /\ UNCHANGED <<wbVars, coVars, scVars, exVars>>
    \/ \E tg_ok \in BOOLEAN, vk_ok \in BOOLEAN : Publish(tg_ok, vk_ok) /\ UNCHANGED <<wbVars, coVars, scVars, exVars>>
    \/ Summary /\ UNCHANGED <<wbVars, coVars, scVars, exVars>>
    \/ \E d \in DaySteps : AdvanceDays(d) /\ UNCHANGED <<wbVars, coVars, scVars, exVars>>

SpecPipeline == Init /\ [][NextPipeline]_vars

\* a started run goes on by itself: asyncio.run(run(...)) executes the
\* coroutine to its return
RunStep ==
    /\ \/ \E s \in Scores : Analyze(s)
       \/ Rank
       \/ \E tg_ok \in BOOLEAN, vk_ok \in BOOLEAN : Publish(tg_ok, vk_ok)
       \/ Summary
    /\ UNCHANGED <<wbVars, coVars, scVars, exVars>>

SpecPipelineLive == Init /\ [][NextPipeline]_vars /\ WF_vars(RunStep)

\* the collect step of a script
NextCollect ==
    \/ \E sc \in Scripts, so \in Sources, c \in Categories, l \in Limits :
          StartCollect(sc, so, c, l) /\ UNCHANGED <<wbVars, plVars, scVars, exVars>>
    \/ \E actor \in ActorRuns : Collect1688(actor) /\ UNCHANGED <<wbVars, plVars, scVars, exVars>>
    \/ \E file \in CacheFiles : CollectJsonFile(file) /\ UNCHANGED <<wbVars, plVars, scVars, exVars>>
    \/ CollectDemo /\ UNCHANGED <<wbVars, plVars, scVars, exVars>>

SpecCollect == Init /\ [][NextCollect]_vars

\* calls of the scoring functions
NextScoring ==
    \/ \E sc \in Scripts, p \in ScoredProducts, w \in Snapshots :
          ScoreInScript(sc, p, w) /\ UNCHANGED <<wbVars, plVars, coVars, exVars>>
    \/ \E a \in ScoreCalls :
          CallComputeScores(a[1], a[2], a[3], a[4]) /\ UNCHANGED <<wbVars, plVars, coVars, exVars>>
    \/ \E p \in UnitPrices, r \in Rates :
          CallEstimateCosts(p, r) /\ UNCHANGED <<wbVars, plVars, coVars, exVars>>
    \/ \E a \in AnalyzeCalls :
          CallAnalyzeProduct(a[1], a[2], a[3]) /\ UNCHANGED <<wbVars, plVars, coVars, exVars>>

SpecScoring == Init /\ [][NextScoring]_vars

\* the variables the insight steps leave alone
insightFrame == <<wbVars, plVars, coVars, scVars, rtVars, gaVars, shVars>>

\* the insight of a product from the model call to its posts
NextInsight ==
    \/ \E k \in BOOLEAN, o \in ModelOutcomes :
          GenerateInsight(k, o) /\ UNCHANGED insightFrame
    \/ \E t \in Texts : LoadAnalyzed(t) /\ UNCHANGED insightFrame
    \/ \E i \in BOOLEAN, f \in BOOLEAN : ComposePost(i, f) /\ UNCHANGED insightFrame
    \/ ComposeVkPost /\ UNCHANGED insightFrame

SpecInsight == Init /\ [][NextInsight]_vars

\* the variables the exchange-rate steps leave alone
rateFrame == <<wbVars, plVars, coVars, scVars, inVars, gaVars, shVars>>

\* calls of get_cny_to_rub over the hours, and pipeline runs that log the rate
NextRate ==
    \/ \E a \in RateAnswers : CallGetRate(a) /\ UNCHANGED rateFrame
    \/ \E a \in RateAnswers : StartRateRun(a) /\ UNCHANGED rateFrame
    \/ \E p \in DemoScored : AnalyzeInRun(p, p.wb_est_price, 12) /\ UNCHANGED rateFrame
    \/ \E h \in HourSteps : PassHours(h) /\ UNCHANGED rateFrame

SpecRate == Init /\ [][NextRate]_vars

\* the variables the growth agent leaves alone
growthFrame == <<wbVars, plVars, coVars, scVars, inVars, rtVars, shVars>>

\* the handlers of one chat interleaved at their awaits, and the daily reset
NextGrowth ==
    \/ \E a \in BOOLEAN, m \in MaxPerDayChoices :
          ConfigureChat(a, m) /\ UNCHANGED growthFrame
    \/ \E h \in Handlers, r \in BOOLEAN : Think(h, r) /\ UNCHANGED growthFrame
    \/ \E h \in Handlers : CheckAllowed(h) /\ UNCHANGED growthFrame
    \/ \E h \in Handlers, ok \in BOOLEAN : SendReply(h, ok) /\ UNCHANGED growthFrame
    \/ \E h \in Handlers : SaveResponse(h) /\ UNCHANGED growthFrame
    \/ \E h \in Handlers : IncrementToday(h) /\ UNCHANGED growthFrame
    \/ ResetDaily /\ UNCHANGED growthFrame

SpecGrowth == Init /\ [][NextGrowth]_vars

\* the variables the scheduler leaves alone
schedulerFrame == <<wbVars, plVars, coVars, scVars, inVars, rtVars, gaVars>>

\* the scheduler's jobs, one after another, each picking its category
NextScheduler ==
    \E r \in 1..MaxChoice : PickCategory(r) /\ UNCHANGED schedulerFrame

SpecScheduler == Init /\ [][NextScheduler]_vars

Next == NextWb \/ NextWbConcurrent \/ NextPipeline \/ NextCollect \/ NextScoring
          \/ NextInsight \/ NextRate \/ NextGrowth \/ NextScheduler

Spec == Init /\ [][Next]_vars

(***************************************************************************)
(* Properties                                                              *)
(***************************************************************************)
PosOf(url, raws) == CHOOSE k \in 1..Len(raws) : raws[k].source_url = url

AllRateLimited(c) ==
    /\ c.outcomes # <<>>
    /\ \A i \in 1..Len(c.outcomes) : c.outcomes[i] = "429"

\* the attempt of task t got its answer in this step
Answered(t) == call[t].pc = "awaiting" /\ call'[t].pc # "awaiting"

\* C1: no source_url is delivered more than once to the same platform,
\* whatever the sends report and however much time passes between runs.
C1_NoDoubleSend == \A u \in Urls, f \in Platforms : sent[u, f] <= 1

\* C2 (as claimed, for a non-empty search term and a first call that
\* returned): two calls with the same (query, keyword) make exactly one
\* outbound request in total.
C2_ExactlyOneRequest ==
    \A p \in Pairs :
        (/\ pair_stats[p].calls >= 2
         /\ pair_stats[p].first = "done"
         /\ SearchTerm(p[1], p[2]) # <<>>) => pair_stats[p].reqs = 1

\* C2 (amended): when the first call of a (query, keyword) pair returned,
\* every later call with that pair issues no outbound request and returns
\* the snapshot the first call returned; the requests made for the pair are
\* those of the first call, at most MAX_RETRIES.
C2_SecondCallFromCache ==
    /\ \A t \in Tasks :
          (/\ call[t].pc = "done"
           /\ call[t].ordinal >= 2
           /\ pair_stats[call[t].pair].first = "done")
          => /\ call[t].req_times = <<>>
             /\ call[t].result = pair_stats[call[t].pair].first_result
    /\ \A p \in Pairs :
          pair_stats[p].first = "done" => pair_stats[p].reqs <= MAX_RETRIES

\* a second call is served from the cache after a first call that was
\* rate limited once and then got data
C2_Witness ==
    /\ call[1].pc = "done"
    /\ call[1].ordinal = 2
    /\ pair_stats[call[1].pair].first = "done"
    /\ pair_stats[call[1].pair].reqs = 2
    /\ call[1].result # EMPTY

\* C3: any two consecutive outbound requests of sequential calls are at
\* least MIN_REQUEST_GAP apart, measured on the process-wide marker.
C3_MinRequestGap == last_gap = -1 \/ last_gap >= MIN_REQUEST_GAP

\* the second call retries after a 429; the last two requests are exactly
\* one gap apart
C3_Witness ==
    /\ calls_made = 2
    /\ requests >= 3
    /\ Len(call[1].req_times) >= 2
    /\ last_gap = MIN_REQUEST_GAP

\* C4: a call whose attempts are all answered with 429 makes exactly 3
\* requests, sleeps 8, 16 and 32 seconds after the first, second and third
\* answer, and returns the empty snapshot; no call makes more than 3 requests.
C4_RetryBackoff ==
    \A t \in Tasks :
        /\ Len(call[t].req_times) <= 3
        /\ AllRateLimited(call[t]) =>
             /\ call[t].sleeps = SubSeq(<<8, 16, 32>>, 1, Len(call[t].outcomes))
             /\ call[t].pc # "raised"
             /\ call[t].pc = "done" =>
                  /\ Len(call[t].req_times) = 3
                  /\ call[t].result = EMPTY
                  /\ now - call[t].req_times[1] >= 8 + 16 + 32

C4_Witness ==
    /\ call[1].pc = "done"
    /\ call[1].outcomes = <<"429", "429", "429">>

\* C5: get_wb_market_data never raises to its caller, whatever the upstream
\* answers.
C5_NeverRaises == \A t \in Tasks : call[t].pc # "raised"

\* C6: an HTTP error status other than 429, or a failure of the transport,
\* ends the call at once with the empty snapshot: no further request, no
\* backoff sleep.
C6_NoRetryOnError ==
    [][\A t \in Tasks :
         (Answered(t) /\ Last(call'[t].outcomes) \in {"4xx", "5xx", "timeout", "network"})
         => /\ call'[t].pc = "done"
            /\ call'[t].result = EMPTY
            /\ call'[t].req_times = call[t].req_times
            /\ call'[t].sleeps = call[t].sleeps
            /\ requests' = requests
            /\ now' = now]_vars

\* an error on the second attempt, after one retried 429
C6_Witness ==
    /\ call[1].pc = "done"
    /\ Len(call[1].outcomes) = 2
    /\ call[1].outcomes[2] \in {"4xx", "network"}

\* C7 (as claimed): a timeout or a 5xx answer is retried with backoff like a
\* rate-limit answer.
C7_TransientRetried ==
    [][\A t \in Tasks :
         (Answered(t) /\ Last(call'[t].outcomes) \in {"timeout", "5xx"})
         => /\ call'[t].pc = "backoff"
            /\ call'[t].wake = now + BackoffDelay(call[t].attempt)]_vars

\* C7 (amended): only a 429 answer is retried with backoff, up to 3 attempts
\* in total; a timeout or a 5xx answer ends the call at that attempt with
\* the empty snapshot.
C7_OnlyRateLimitRetried ==
    \A t \in Tasks :
        /\ Len(call[t].req_times) <= MAX_RETRIES
        /\ call[t].pc = "backoff" => Last(call[t].outcomes) = "429"
        /\ \A i \in 1..Len(call[t].outcomes) :
              i < Len(call[t].req_times) => call[t].outcomes[i] = "429"
        /\ (call[t].outcomes # <<>> /\ Last(call[t].outcomes) \in {"timeout", "5xx"})
             => /\ call[t].pc = "done"
                /\ call[t].result = EMPTY
                /\ Len(call[t].req_times) = Len(call[t].outcomes)

\* a timeout on the second attempt, after one retried 429
C7_Witness ==
    /\ call[1].pc = "done"
    /\ call[1].outcomes \in {<<"429", "timeout">>, <<"429", "5xx">>}

\* C8: the products that go on to insight, compose and publish are the first
\* top_n of the ranking over the candidates left by both exclusion rules.
C8_TopNOfSurvivors ==
    (run.pc = "publish" /\ run.idx > Len(run.top)) => run.went_on = run.expected

\* C9: a candidate whose picture is already in the ledger is composed and
\* published without picture, and no two ledger rows of different
\* source_url carry the same picture.
C9_ImageDedup ==
    /\ last_compose.dup =>
         /\ last_compose.image_url = NoImage
         /\ last_compose.published =>
              \E r \in ledger : /\ r.source_url = last_compose.source_url
                                /\ r.platform = "telegram"
                                /\ r.image_url = NoImage
    /\ \A r1, r2 \in ledger :
          (r1.source_url # r2.source_url /\ r1.image_url # NoImage)
          => r1.image_url # r2.image_url

\* a product was delivered without its picture because another product's
\* row carries that picture
C9_Witness ==
    /\ last_compose.dup
    /\ last_compose.published
    /\ \E r \in ledger : /\ r.source_url # last_compose.source_url
                         /\ r.image_url = "imgA"

\* C10: after ranking, analyzed is in descending order of total_score and
\* products of equal total_score are in the order of collection.
C10_RankedStable ==
    run.pc = "publish" =>
        \A i, j \in 1..Len(run.analyzed) :
            i < j =>
              /\ run.analyzed[i].total_score >= run.analyzed[j].total_score
              /\ run.analyzed[i].total_score = run.analyzed[j].total_score =>
                   PosOf(run.analyzed[i].raw.source_url, run.raw_products)
                     < PosOf(run.analyzed[j].raw.source_url, run.raw_products)

\* the product collected last ranks first, ahead of two of equal score
C10_Witness ==
    /\ run.pc = "publish"
    /\ Len(run.analyzed) = 3
    /\ run.analyzed[1].raw.source_url = run.raw_products[3].source_url
    /\ run.analyzed[2].total_score = run.analyzed[3].total_score
    /\ run.analyzed[1].total_score > run.analyzed[2].total_score

(***************************************************************************)
(* Collectors and fallback chain                                           *)
(***************************************************************************)
Chain == <<"1688", "cache", "demo">>

DistinctUrls(products) ==
    \A i, j \in 1..Len(products) :
        i # j => products[i].source_url # products[j].source_url

\* C11: with source=1688 the collectors are tried in the order live scrape,
\* file cache, demo; the file cache is invoked iff the live scrape returned
\* an empty list, the demo collector iff both returned empty lists, and the
\* first non-empty result is the batch handed on
C11_FallbackChain ==
    (collect.pc = "done" /\ collect.source = "1688") =>
        LET inv == collect.invoked
            ret == collect.returned
        IN  /\ inv = SubSeq(Chain, 1, Len(inv))
            /\ (Len(inv) >= 2) <=> (ret[1] = <<>>)
            /\ (Len(inv) >= 3) <=> (Len(ret) >= 2 /\ ret[1] = <<>> /\ ret[2] = <<>>)
            /\ \A i \in 1..Len(ret) - 1 : ret[i] = <<>>
            /\ collect.raw_products = ret[Len(ret)]

\* C12: no RawProduct with price_cny <= 0 is returned by a collector or
\* handed on to the analysis
C12_NoUnpricedProduct ==
    /\ \A i \in 1..Len(collect.returned) :
          \A k \in 1..Len(collect.returned[i]) : collect.returned[i][k].price_cny > 0
    /\ \A k \in 1..Len(collect.raw_products) : collect.raw_products[k].price_cny > 0

\* C13: no two RawProducts of the list returned by one collect call share a
\* source_url, whatever the upstream content
C13_DistinctSourceUrls ==
    \A i \in 1..Len(collect.returned) : DistinctUrls(collect.returned[i])

\* C14: a collect call returns a list and never raises past the collector,
\* whatever the token, the scraper run and the cache file are
C14_CollectNeverRaises == collect.pc # "raised"

(***************************************************************************)
(* Scoring                                                                 *)
(***************************************************************************)
Scored == scoring.op \in {"analyze_product", "compute_scores"}

\* total_landed_cost and wb_avg_price of the compute_scores call recorded
LandedArg ==
    IF scoring.op = "analyze_product" THEN scoring.costs.total_landed_cost
    ELSE scoring.total_landed_cost

\* C15: when the client returns the empty snapshot the caller substitutes a
\* fallback price, and analyze_product is never called with a reference
\* price of 0
C15_FallbackPrice ==
    scoring.op = "analyze_product" =>
        /\ scoring.wb_avg_price # 0
        /\ scoring.wb_data = EMPTY => scoring.wb_avg_price # scoring.wb_data.avg_price

C15_Witness ==
    /\ scoring.op = "analyze_product"
    /\ scoring.script = "run_pipeline"
    /\ scoring.wb_data = EMPTY
    /\ scoring.product.wb_est_price <= 0
    /\ scoring.costs.total_landed_cost = 0
    /\ scoring.wb_avg_price = CategoryFallback(scoring.product.category).price

\* C16: when the landed cost or the reference price is <= 0, compute_scores
\* returns margin_pct = 0, margin_rub = 0 and margin_score = 0
C16_NoMarginWithoutPrices ==
    (Scored /\ (LandedArg <= 0 \/ scoring.wb_avg_price <= 0)) =>
        /\ scoring.scores.margin_pct = 0
        /\ scoring.scores.margin_rub = 0
        /\ scoring.scores.margin_score = 0

C16_Witness ==
    /\ scoring.op = "compute_scores"
    /\ scoring.total_landed_cost < 0
    /\ scoring.wb_avg_price > 0
    /\ scoring.scores.margin_rub = 0

\* the four amounts of estimate_costs, unrounded, in 1/10000 kopeck
ExactCosts(p, r) ==
    [price_rub |-> p * r * 100, delivery_cost_est |-> p * r * DELIVERY_PCT,
     customs_duty_est |-> p * r * CUSTOMS_PCT,
     total_landed_cost |-> p * r * (100 + DELIVERY_PCT + CUSTOMS_PCT)]

CostFields == {"price_rub", "delivery_cost_est", "customs_duty_est", "total_landed_cost"}

\* C17 as stated: for p > 0 and r > 0 each amount of estimate_costs equals
\* p*r, 0.20*p*r, 0.15*p*r and 1.35*p*r rounded to 2 decimals
C17_ExactCosts ==
    (scoring.op = "estimate_costs" /\ scoring.price_cny > 0 /\ scoring.cny_rate > 0) =>
        \A f \in CostFields :
            scoring.costs[f] = RoundDiv(ExactCosts(scoring.price_cny, scoring.cny_rate)[f],
                                        10000)

\* C17: for p > 0 and r > 0 each amount of estimate_costs is within half a
\* kopeck of p*r, 0.20*p*r, 0.15*p*r and 1.35*p*r, and it is the rounded
\* value of the claim whenever the amount is not halfway between two kopecks
C17_CostsWithinRounding ==
    (scoring.op = "estimate_costs" /\ scoring.price_cny > 0 /\ scoring.cny_rate > 0) =>
        \A f \in CostFields :
            LET x == ExactCosts(scoring.price_cny, scoring.cny_rate)[f]
            IN  /\ 2 * Abs(scoring.costs[f] * 10000 - x) <= 10000
                /\ x % 10000 # 5000 => scoring.costs[f] = RoundDiv(x, 10000)

C17_Witness ==
    /\ scoring.op = "estimate_costs"
    /\ scoring.price_cny = 10
    /\ scoring.cny_rate = 1100
    /\ scoring.costs.customs_duty_est = 17
    /\ scoring.costs.total_landed_cost = 149

\* the weighted sum of the four returned sub-scores (tenths), in 1/10000
TotalOfReturned(scores) ==
    scores.trend_score * TREND_WEIGHT * 10 + scores.competition_score * COMPETITION_WEIGHT * 10
      + scores.margin_score * MARGIN_WEIGHT * 10
      + scores.reliability_score * RELIABILITY_WEIGHT * 10

WeightsSumToOne ==
    TREND_WEIGHT + COMPETITION_WEIGHT + MARGIN_WEIGHT + RELIABILITY_WEIGHT = 100

TotalInRange ==
    (scoring.product.supplier_years >= 0 /\ scoring.product.rating >= 0) =>
        (scoring.scores.total_score >= 0 /\ scoring.scores.total_score <= 1000)

\* C18 as stated: total_score is the weighted sum of the four returned
\* sub-scores rounded to 2 decimals, the weights sum to 1.0 and total_score
\* lies in [0, 10] for non-negative supplier_years and rating
C18_TotalFromReturned ==
    Scored =>
        /\ scoring.scores.total_score * 100 = TotalOfReturned(scoring.scores)
        /\ WeightsSumToOne
        /\ TotalInRange

\* C18: total_score is within 0.01 of the weighted sum of the four returned
\* sub-scores, the weights sum to 1.0 and total_score lies in [0, 10] for
\* non-negative supplier_years and rating
C18_TotalWithinRounding ==
    Scored =>
        /\ Abs(scoring.scores.total_score * 100 - TotalOfReturned(scoring.scores)) <= 100
        /\ WeightsSumToOne
        /\ TotalInRange

C18_Witness ==
    /\ scoring.op = "compute_scores"
    /\ scoring.product.rating = 1
    /\ scoring.product.supplier_years = 0
    /\ scoring.scores.reliability_score = 2
    /\ scoring.scores.total_score * 100 = TotalOfReturned(scoring.scores) - 100

\* the step function of the claim
CompetitionStep(c) ==
    IF c = 0 THEN 9
    ELSE IF c >= 1 /\ c <= 5 THEN 8
    ELSE IF c >= 6 /\ c <= 20 THEN 6
    ELSE IF c >= 21 /\ c <= 50 THEN 4
    ELSE IF c >= 51 /\ c <= 100 THEN 2
    ELSE 1

\* C19: competition_score is 9 for c = 0, 8 for 1..5, 6 for 6..20, 4 for
\* 21..50, 2 for 51..100 and 1 above 100, hence non-increasing in c >= 0
C19_CompetitionStep ==
    (Scored /\ scoring.wb_competitors >= 0) =>
        /\ scoring.scores.competition_score = 10 * CompetitionStep(scoring.wb_competitors)
        /\ \A c \in 0..scoring.wb_competitors :
              CompetitionScore(c) >= CompetitionScore(scoring.wb_competitors)

C19_Witness ==
    /\ scoring.op = "compute_scores"
    /\ scoring.wb_competitors > 100
    /\ scoring.scores.competition_score = 10

\* the step function of the claim on a margin in tenths of a percent
MarginStep(pct) ==
    IF pct >= 600 THEN 10
    ELSE IF pct >= 450 THEN 8
    ELSE IF pct >= 300 THEN 6
    ELSE IF pct >= 150 THEN 4
    ELSE IF pct > 0 THEN 2
    ELSE 0

\* C20 as stated: margin_score is the step function of the returned
\* margin_pct
C20_MarginStepOfReturned ==
    Scored => scoring.scores.margin_score = 10 * MarginStep(scoring.scores.margin_pct)

\* C20: margin_score is the step function of the margin before it is rounded
\* to one decimal: it is the step of the returned margin_pct, except that a
\* returned 60.0, 45.0, 30.0 or 15.0 may carry the score of the band below
\* and a returned 0.0 may carry the score 2
C20_MarginStepBeforeRounding ==
    Scored =>
        LET pct == scoring.scores.margin_pct
            score == scoring.scores.margin_score
        IN  IF pct \in {600, 450, 300, 150}
            THEN score \in {10 * MarginStep(pct), 10 * MarginStep(pct - 1)}
            ELSE IF pct = 0 THEN score \in {0, 20}
            ELSE score = 10 * MarginStep(pct)

C20_Witness ==
    /\ scoring.op = "compute_scores"
    /\ scoring.total_landed_cost = 4003
    /\ scoring.wb_avg_price = 10000
    /\ scoring.scores.margin_pct = 600
    /\ scoring.scores.margin_score = 80

\* the listings of a decodable 200 answer that enter the average price
PricedListings(body) == PositivePrices(PriceSample(body.products))

\* C21: the competitor count of a snapshot built from an answer is the number
\* of listings that enter the average price (the positive prices among the
\* first 50 listings), and so never exceeds 50
C21_CompetitorsArePricedSample ==
    [][\A t \in SeqTasks, r \in Responses :
         (Respond(t, r) /\ call'[t].pc = "done" /\ call'[t].result # EMPTY)
            => /\ call'[t].result.competitors = Len(PricedListings(r.body))
               /\ call'[t].result.competitors <= PRICE_SAMPLE]_vars

\* the end-to-end scenario: DEMO_PRODUCTS[0] against a reference price of
\* 2500 RUB and 12 competitors
DemoScenario ==
    /\ scoring.op = "analyze_direct"
    /\ scoring.product = ScoredProduct("electronics", 2850, 250000, 15200, 6, 47)
    /\ scoring.wb_avg_price = 250000
    /\ scoring.wb_competitors = 12

\* C22: for 28.5 CNY, 15200 sales, rating 4.7, 6 supplier years, rate 12.5,
\* reference price 2500 and 12 competitors the engine yields price_rub 356.25,
\* total_landed_cost 480.94, margin_rub 2019.06, margin_pct 80.8, margin_score
\* 10, trend_score 10, competition_score 6, reliability_score 10 and
\* total_score 9.0
C22_DemoScenario ==
    DemoScenario =>
        /\ CNY_TO_RUB = 1250
        /\ scoring.costs.price_rub = 35625
        /\ scoring.costs.total_landed_cost = 48094
        /\ scoring.scores.margin_rub = 201906
        /\ scoring.scores.margin_pct = 808
        /\ scoring.scores.margin_score = 100
        /\ scoring.scores.trend_score = 100
        /\ scoring.scores.competition_score = 60
        /\ scoring.scores.reliability_score = 100
        /\ scoring.scores.total_score = 900

C22_Witness ==
    /\ DemoScenario
    /\ scoring.scores.total_score = 900

\* the model call of the product failed, or was skipped for want of a key
InsightFailed ==
    /\ insight.origin = "generated"
    /\ \/ ~insight.api_key
       \/ insight.outcome.kind = "raises"

Composed == insight.pc \in {"composed", "composed_vk"}

\* C23: generate_insight returns "" without an API key and on an exception of
\* the model call, so no error text of the call becomes an insight; and a
\* post (Telegram compact or full, VK) carries an insight block only if the
\* stored ai_insight is non-blank and contains no error marker
C23_NoErrorInsight ==
    /\ InsightFailed => insight.ai_insight = <<>>
    /\ (Composed /\ insight.block.present) =>
          /\ Strip(insight.ai_insight) # <<>>
          /\ \A marker \in ERROR_MARKERS : ~Contains(insight.ai_insight, marker)
    /\ (insight.pc = "composed_vk" /\ insight.vk_block.present) =>
          /\ Strip(insight.ai_insight) # <<>>
          /\ \A marker \in ERROR_MARKERS : ~Contains(insight.ai_insight, marker)
    /\ (Composed /\ InsightFailed) => ~insight.block.present
    /\ (insight.pc = "composed_vk" /\ InsightFailed) => ~insight.vk_block.present

\* a stored ai_insight holding "Error" was composed for both platforms and
\* left out of both posts
C23_Witness ==
    /\ insight.pc = "composed_vk"
    /\ insight.origin = "stored"
    /\ Contains(insight.ai_insight, <<"E", "r", "r", "o", "r">>)
    /\ ~insight.block.present
    /\ ~insight.vk_block.present

\* C24: every started run eventually emits the summary log, also when the
\* collectors returned nothing or every collected product was already
\* published
C24_SummaryEventually ==
    \A n \in 1..MaxRuns :
        (runs_made = n) ~> (runs_made = n /\ run.exit = "summary")

\* C25 as stated: get_cny_to_rub never raises; with a rate fetched less than
\* 24 hours ago it returns that rate without an HTTP request; and when the
\* request it issues finds the source unreachable it returns the fallback
\* constant
C25_RateContract ==
    rate_call.n > 0 =>
        /\ ~rate_call.raised
        /\ RateCacheFresh(rate_call.before, rate_call.hour) =>
              (rate_call.result = rate_call.before.rate /\ ~rate_call.http)
        /\ (rate_call.http /\ rate_call.answer = "unreachable") =>
              rate_call.result = CNY_TO_RUB_FALLBACK

\* C26: the costs of a run are those of the rate the run logged at its start
C26_CostsUseLoggedRate ==
    rate_run.pc = "analyzed" =>
        rate_run.costs \in EstimateCosts(rate_run.price_cny, rate_run.logged)

\* C27: between two daily resets the replies delivered to the chat never
\* exceed its max_messages_per_day, whatever the interleaving of the handlers
C27_DailyLimit == sent_since_reset <= schedule.max_messages_per_day

\* C28: of every CHANNEL_LINK_EVERY_N_RESPONSES consecutive replies sent to
\* the chat at most one includes the channel link
C28_LinkRatio ==
    \A i \in 1..Len(responses), j \in 1..Len(responses) :
        (i < j /\ responses[i].included_channel_link
               /\ responses[j].included_channel_link)
            => j - i >= CHANNEL_LINK_EVERY_N_RESPONSES

\* both calls are for the same search term
SameTerm(t1, t2) ==
    /\ t1 # t2
    /\ call[t1].pc # "idle" /\ call[t2].pc # "idle"
    /\ call[t1].term = call[t2].term

\* C29 as stated: with two calls in flight at once no two requests are
\* issued less than MIN_REQUEST_GAP apart, and of two calls for the same
\* search term only one issues an outbound request
C29_ConcurrentGuarantees ==
    /\ last_gap = -1 \/ last_gap >= MIN_REQUEST_GAP
    /\ \A t1 \in Tasks, t2 \in Tasks :
          SameTerm(t1, t2) => (call[t1].req_times = <<>> \/ call[t2].req_times = <<>>)

\* C29 (amended): under any interleaving the requests of one call are at
\* least MIN_REQUEST_GAP apart, and a call that starts after a call with its
\* (query, keyword) pair has returned issues no request and returns at
\* once
C29_PerCallGuarantees ==
    \A t \in Tasks :
        /\ \A i \in 1..(Len(call[t].req_times) - 1) :
              call[t].req_times[i + 1] - call[t].req_times[i] >= MIN_REQUEST_GAP
        /\ (call[t].pc # "idle" /\ call[t].ordinal >= 2) =>
              /\ call[t].pc = "done"
              /\ call[t].req_times = <<>>

\* two overlapping calls for one term both sent requests, the first of them
\* twice, and two requests went out in the same second
C29_Witness ==
    /\ SameTerm(1, 2)
    /\ Len(call[1].req_times) >= 2
    /\ call[2].req_times # <<>>
    /\ call[1].req_times[1] = call[2].req_times[1]

\* C30: _pick_category never returns a category returned by one of its previous
\* 8 calls: _recent_categories holds at most 8 pairwise distinct categories and
\* every 9 consecutive picks are pairwise distinct
C30_NoRecentRepeat ==
    /\ Len(recent_categories) <= RECENT_LIMIT
    /\ \A i \in 1..Len(recent_categories), j \in 1..Len(recent_categories) :
          i # j => recent_categories[i] # recent_categories[j]
    /\ \A i \in 1..Len(picks), j \in 1..Len(picks) :
          (i < j /\ j - i <= RECENT_LIMIT) => picks[i] # picks[j]

\* a category comes back on the ninth call after the call that returned it
C30_Witness ==
    /\ Len(picks) > RECENT_LIMIT + 1
    /\ Len(recent_categories) = RECENT_LIMIT
    /\ picks[Len(picks)] = picks[Len(picks) - RECENT_LIMIT - 1]

====
